---- MODULE Spec2Model ----
(***************************************************************************)
(* A model of the configuration mapping engine of the Gitea charm:         *)
(* GiteaConfig (the INI-backed document), its Option hierarchy             *)
(* (DirectOption, PathOption) and the validation strategies, as written in *)
(* src/src/config.py.  Python strings are TLA+ strings; a character is a   *)
(* string of length one.  An operation that can raise returns a record     *)
(* holding the state it leaves behind and the exception that reaches its   *)
(* caller.                                                                 *)
(***************************************************************************)
EXTENDS Integers, Sequences, FiniteSets, TLC

VARIABLES
    ini,        \* GiteaConfig._ini: the in-memory store (loaded = FALSE: None)
    file,       \* the file at GiteaConfig._path: its physical lines
    dirs,       \* the directories PathOption provisions: path -> owner, mode
    options,    \* GiteaConfig._options: the registered options, in order
    last,       \* the last call on the document: argument, exception, trace
    prior,      \* a summary of the call before the last one
    calls,      \* how many calls the document has served
    unit        \* the charm's unit: status, service, trace of the last handler

vars == <<ini, file, dirs, options, last, prior, calls, unit>>

(***************************************************************************)
(* Bounds of the model.                                                    *)
(***************************************************************************)
\* longest external value drawn for a single option under SpecOpt
MaxLen == 3
\* how many calls a document serves in one behaviour
MaxCalls == 3
\* longest file, in lines, drawn under SpecFile
MaxLines == 3
\* how many events a unit handles in one behaviour under SpecCharm
MaxHooks == 2

(***************************************************************************)
(* Python str                                                              *)
(***************************************************************************)
NL == "\n"
TAB == "\t"

Ch(s, i) == SubSeq(s, i, i)

\* s[i:] (1-based i)
From(s, i) == SubSeq(s, i, Len(s))

\* the characters str.strip() removes
Whitespace == {" ", TAB, NL, "\r"}

RECURSIVE lstrip(_)
lstrip(s) ==
    IF Len(s) > 0 /\ Ch(s, 1) \in Whitespace THEN lstrip(From(s, 2)) ELSE s

RECURSIVE rstrip(_)
rstrip(s) ==
    IF Len(s) > 0 /\ Ch(s, Len(s)) \in Whitespace
    THEN rstrip(SubSeq(s, 1, Len(s) - 1))
    ELSE s

strip(s) == rstrip(lstrip(s))

\* index of the first occurrence of character c in s at or after i; 0 if none
RECURSIVE find(_, _, _)
find(s, c, i) ==
    IF i > Len(s) THEN 0
    ELSE IF Ch(s, i) = c THEN i
    ELSE find(s, c, i + 1)

\* str.split(sep) for a one-character separator: a sequence of strings
RECURSIVE split(_, _)
split(s, sep) ==
    LET j == find(s, sep, 1)
    IN  IF j = 0 THEN <<s>>
        ELSE <<SubSeq(s, 1, j - 1)>> \o split(From(s, j + 1), sep)

\* sep.join(parts)
RECURSIVE join(_, _)
join(parts, sep) ==
    IF Len(parts) = 0 THEN ""
    ELSE IF Len(parts) = 1 THEN parts[1]
    ELSE parts[1] \o sep \o join(Tail(parts), sep)

\* str.replace(old, new) for a one-character old
RECURSIVE replace(_, _, _)
replace(s, old, new) ==
    IF Len(s) = 0 THEN ""
    ELSE (IF Ch(s, 1) = old THEN new ELSE Ch(s, 1)) \o replace(From(s, 2), old, new)

UpperCase == "ABCDEFGHIJKLMNOPQRSTUVWXYZ"
LowerCase == "abcdefghijklmnopqrstuvwxyz"

\* the lower-case letter of every upper-case letter
ToLower == [c \in {Ch(UpperCase, i) : i \in 1..26} |->
              Ch(LowerCase, CHOOSE i \in 1..26 : Ch(UpperCase, i) = c)]

\* str.lower()
RECURSIVE lower(_)
lower(s) ==
    IF Len(s) = 0 THEN ""
    ELSE LET c == Ch(s, 1)
         IN  (IF c \in DOMAIN ToLower THEN ToLower[c] ELSE c) \o lower(From(s, 2))

DigitChars == "0123456789"

\* str(n) for an int n >= 0
RECURSIVE IntStr(_)
IntStr(n) ==
    IF n < 10 THEN Ch(DigitChars, n + 1)
    ELSE IntStr(n \div 10) \o Ch(DigitChars, (n % 10) + 1)

(***************************************************************************)
(* re.fullmatch, for the patterns of the option table: literal characters, *)
(* '.', and the postfix quantifiers '*', '+' and '?'.                      *)
(***************************************************************************)
Quantifiers == {"*", "+", "?"}

\* the pattern as a sequence of atoms [c: character or '.', q: quantifier or "1"]
RECURSIVE Atoms(_)
Atoms(p) ==
    IF Len(p) = 0 THEN <<>>
    ELSE IF Len(p) >= 2 /\ Ch(p, 2) \in Quantifiers
         THEN <<[c |-> Ch(p, 1), q |-> Ch(p, 2)]>> \o Atoms(From(p, 3))
         ELSE <<[c |-> Ch(p, 1), q |-> "1"]>> \o Atoms(From(p, 2))

\* '.' matches every character but a newline
AtomMatches(a, ch) == IF a.c = "." THEN ch # NL ELSE a.c = ch

\* atoms[i..] matches exactly s[j..]
RECURSIVE MatchFrom(_, _, _, _)
MatchFrom(atoms, i, s, j) ==
    IF i > Len(atoms) THEN j > Len(s)
    ELSE LET a == atoms[i]
             one == j <= Len(s) /\ AtomMatches(a, Ch(s, j))
         IN  CASE a.q = "1" -> one /\ MatchFrom(atoms, i + 1, s, j + 1)
               [] a.q = "?" -> MatchFrom(atoms, i + 1, s, j)
                               \/ (one /\ MatchFrom(atoms, i + 1, s, j + 1))
               [] a.q = "*" -> MatchFrom(atoms, i + 1, s, j)
                               \/ (one /\ MatchFrom(atoms, i, s, j + 1))
               [] a.q = "+" -> one /\ (MatchFrom(atoms, i + 1, s, j + 1)
                                       \/ MatchFrom(atoms, i, s, j + 1))

fullmatch(pattern, string) == MatchFrom(Atoms(pattern), 1, string, 1)

(***************************************************************************)
(* Exceptions.  type "none": the call returned.  key: the external key the *)
(* message names, if any.  cause: the type of the exception it was raised  *)
(* from (raise ... from err).                                              *)
(***************************************************************************)
NoErr == [type |-> "none", key |-> "", cause |-> ""]

Raise(t) == [type |-> t, key |-> "", cause |-> ""]

(***************************************************************************)
(* Insertion-ordered dict: a sequence of [k, v] with distinct k.           *)
(***************************************************************************)
RECURSIVE IndexOf(_, _, _)
IndexOf(d, k, i) ==
    IF i > Len(d) THEN 0
    ELSE IF d[i].k = k THEN i
    ELSE IndexOf(d, k, i + 1)

DHas(d, k) == IndexOf(d, k, 1) # 0

DGet(d, k) == d[IndexOf(d, k, 1)].v

\* d[k] = v: in place if k is there, appended if not
DPut(d, k, v) ==
    LET i == IndexOf(d, k, 1)
    IN  IF i = 0 THEN Append(d, [k |-> k, v |-> v])
        ELSE [d EXCEPT ![i] = [k |-> k, v |-> v]]

\* del d[k]
DDel(d, k) ==
    LET i == IndexOf(d, k, 1)
    IN  IF i = 0 THEN d
        ELSE SubSeq(d, 1, i - 1) \o SubSeq(d, i + 1, Len(d))

DKeys(d) == {d[i].k : i \in 1..Len(d)}

(***************************************************************************)
(* configparser.ConfigParser: _defaults and _sections.                     *)
(***************************************************************************)
default_section == "DEFAULT"

\* self._ini = None
NoIni == [loaded |-> FALSE, defaults |-> <<>>, sections |-> <<>>]

\* configparser.ConfigParser(allow_no_value=True)
EmptyIni == [loaded |-> TRUE, defaults |-> <<>>, sections |-> <<>>]

has_section(I, section) == DHas(I.sections, section)

\* the value at (section, key), "<absent>" if the key is not in that section;
\* section DEFAULT reads _defaults
Absent == "<absent>"

Lookup(I, section, key) ==
    IF section = default_section
    THEN (IF DHas(I.defaults, key) THEN DGet(I.defaults, key) ELSE Absent)
    ELSE IF has_section(I, section) /\ DHas(DGet(I.sections, section), key)
         THEN DGet(DGet(I.sections, section), key)
         ELSE Absent

\* value.replace('%%', '')
RECURSIVE DropDoubledPercent(_)
DropDoubledPercent(s) ==
    IF Len(s) = 0 THEN ""
    ELSE IF Len(s) >= 2 /\ SubSeq(s, 1, 2) = "%%" THEN DropDoubledPercent(From(s, 3))
    ELSE Ch(s, 1) \o DropDoubledPercent(From(s, 2))

\* _KEYCRE.sub('', s) with _KEYCRE = %\(([^)]+)\)s
RECURSIVE DropKeyRefs(_)
DropKeyRefs(s) ==
    IF Len(s) = 0 THEN ""
    ELSE LET j == find(s, ")", 3)
         IN  IF /\ Len(s) >= 5
                /\ SubSeq(s, 1, 2) = "%("
                /\ j >= 4
                /\ j < Len(s)
                /\ Ch(s, j + 1) = "s"
             THEN DropKeyRefs(From(s, j + 2))
             ELSE Ch(s, 1) \o DropKeyRefs(From(s, 2))

\* BasicInterpolation.before_set raises ValueError("invalid interpolation syntax")
BadInterpolation(value) ==
    find(DropKeyRefs(DropDoubledPercent(value)), "%", 1) # 0

\* RawConfigParser.add_section
add_section(I, section) ==
    IF section = default_section
    THEN [ini |-> I, err |-> Raise("ValueError")]
    ELSE IF has_section(I, section)
    THEN [ini |-> I, err |-> Raise("DuplicateSectionError")]
    ELSE [ini |-> [I EXCEPT !.sections = Append(@, [k |-> section, v |-> <<>>])],
          err |-> NoErr]

\* a set that extends the value the key already holds
ini_set_appending(I, section, option, value) ==
    LET held == IF Lookup(I, section, option) = Absent THEN "" ELSE Lookup(I, section, option)
    IN  IF value # "" /\ BadInterpolation(value)
        THEN [ini |-> I, err |-> Raise("ValueError")]
        ELSE IF section = "" \/ section = default_section
        THEN [ini |-> [I EXCEPT !.defaults = DPut(@, option, held \o value)], err |-> NoErr]
        ELSE IF ~has_section(I, section)
        THEN [ini |-> I, err |-> Raise("NoSectionError")]
        ELSE [ini |-> [I EXCEPT !.sections =
                          DPut(@, section, DPut(DGet(@, section), option, held \o value))],
              err |-> NoErr]

\* ConfigParser.set -> RawConfigParser.set
ini_set(I, section, option, value) ==
    IF value # "" /\ BadInterpolation(value)
    THEN [ini |-> I, err |-> Raise("ValueError")]
    ELSE IF section = "" \/ section = default_section
    THEN [ini |-> [I EXCEPT !.defaults = DPut(@, option, value)], err |-> NoErr]
    ELSE IF ~has_section(I, section)
    THEN [ini |-> I, err |-> Raise("NoSectionError")]
    ELSE [ini |-> [I EXCEPT !.sections =
                      DPut(@, section, DPut(DGet(@, section), option, value))],
          err |-> NoErr]

\* RawConfigParser.remove_option
remove_option(I, section, option) ==
    IF section = "" \/ section = default_section
    THEN [ini |-> [I EXCEPT !.defaults = DDel(@, option)], err |-> NoErr]
    ELSE IF ~has_section(I, section)
    THEN [ini |-> I, err |-> Raise("NoSectionError")]
    ELSE [ini |-> [I EXCEPT !.sections =
                      DPut(@, section, DDel(DGet(@, section), option))],
          err |-> NoErr]

(***************************************************************************)
(* GiteaConfig: the mutation primitives.  On self._ini = None every one of *)
(* them raises AttributeError.                                             *)
(***************************************************************************)
\* an ensure_section that leaves the section empty
ensure_section_clearing(I, section) ==
    IF ~I.loaded THEN [ini |-> I, err |-> Raise("AttributeError")]
    ELSE IF ~has_section(I, section) THEN add_section(I, section)
    ELSE [ini |-> [I EXCEPT !.sections = DPut(@, section, <<>>)], err |-> NoErr]

\* an ensure_section that creates nothing
ensure_section_noop(I, section) ==
    IF ~I.loaded THEN [ini |-> I, err |-> Raise("AttributeError")]
    ELSE [ini |-> I, err |-> NoErr]

ensure_section(I, section) ==
    IF ~I.loaded THEN [ini |-> I, err |-> Raise("AttributeError")]
    ELSE IF ~has_section(I, section) THEN add_section(I, section)
    ELSE [ini |-> I, err |-> NoErr]

set(I, ini_sect, ini_key, val) ==
    LET sect == IF lower(ini_sect) = "default" THEN default_section ELSE ini_sect
    IN  IF ~I.loaded THEN [ini |-> I, err |-> Raise("AttributeError")]
        ELSE ini_set(I, sect, ini_key, val)

remove(I, ini_sect, ini_key) ==
    IF ~I.loaded THEN [ini |-> I, err |-> Raise("AttributeError")]
    ELSE remove_option(I, ini_sect, ini_key)

(***************************************************************************)
(* The external configuration snapshot (ops.model.ConfigData): a mapping   *)
(* from external keys to str, int or bool values.  A value is              *)
(* [t: "str" | "int" | "bool", s: the str, n: the int, or 0/1 for a bool]. *)
(***************************************************************************)
StrVal(s) == [t |-> "str", s |-> s, n |-> 0]

IntVal(n) == [t |-> "int", s |-> "", n |-> n]

BoolVal(b) == [t |-> "bool", s |-> "", n |-> IF b THEN 1 ELSE 0]

\* Python truth value: bool(v)
Truthy(v) == IF v.t = "str" THEN v.s # "" ELSE v.n # 0

\* str(v)
PyStr(v) ==
    CASE v.t = "str" -> v.s
      [] v.t = "int" -> IntStr(v.n)
      [] v.t = "bool" -> IF v.n = 1 THEN "True" ELSE "False"

\* the empty snapshot
EmptyConfig == [k \in {} |-> StrVal("")]

(***************************************************************************)
(* DirectOption.  An option is a record                                    *)
(*   [cls, juju_key, ini_sect, ini_key, apply, allowed, allow_empty,       *)
(*    remove_if_empty]                                                     *)
(* where apply names the bound apply_* function, allowed is its positional *)
(* argument and allow_empty / remove_if_empty its keyword arguments (the   *)
(* defaults of the signature when the registration gives none).            *)
(***************************************************************************)
DirectOption(juju_key, ini_sect, ini_key, apply, allowed, allow_empty, remove_if_empty) ==
    [cls |-> "DirectOption", juju_key |-> juju_key, ini_sect |-> ini_sect,
     ini_key |-> ini_key, apply |-> apply, allowed |-> allowed,
     allow_empty |-> allow_empty, remove_if_empty |-> remove_if_empty]

\* PathOption.__init__: apply is None; mode and owner are the defaults
PathOption(juju_key, ini_sect, ini_key) ==
    [cls |-> "PathOption", juju_key |-> juju_key, ini_sect |-> ini_sect,
     ini_key |-> ini_key, apply |-> "None", allowed |-> <<>>,
     allow_empty |-> TRUE, remove_if_empty |-> TRUE]

\* a _get that returns "" for an unset key whatever allow_empty says
_get_lenient(opt, config, allow_empty) ==
    IF opt.juju_key \notin DOMAIN config \/ ~Truthy(config[opt.juju_key])
    THEN [err |-> NoErr, val |-> ""]
    ELSE [err |-> NoErr, val |-> PyStr(config[opt.juju_key])]

\* DirectOption._get: [err, val]
_get(opt, config, allow_empty) ==
    IF opt.juju_key \notin DOMAIN config \/ ~Truthy(config[opt.juju_key])
    THEN IF allow_empty
         THEN [err |-> NoErr, val |-> ""]
         ELSE [err |-> Raise("ValueError"), val |-> ""]
    ELSE [err |-> NoErr, val |-> PyStr(config[opt.juju_key])]

\* a _set that writes its key into a store whose sections it has emptied
_set_resetting(I, opt, value, remove_if_empty) ==
    LET J == [I EXCEPT !.sections = [i \in DOMAIN @ |-> [k |-> @[i].k, v |-> <<>>]]]
        r == ensure_section(J, opt.ini_sect)
    IN  IF r.err # NoErr THEN r
        ELSE IF value = "" /\ remove_if_empty
        THEN remove(r.ini, opt.ini_sect, opt.ini_key)
        ELSE set(r.ini, opt.ini_sect, opt.ini_key, value)

\* DirectOption._set
_set(I, opt, value, remove_if_empty) ==
    LET r == ensure_section(I, opt.ini_sect)
    IN  IF r.err # NoErr THEN r
        ELSE IF value = "" /\ remove_if_empty
        THEN remove(r.ini, opt.ini_sect, opt.ini_key)
        ELSE set(r.ini, opt.ini_sect, opt.ini_key, value)

\* DirectOption._matches_any
_matches_any(patterns, string) ==
    \E i \in 1..Len(patterns) : fullmatch(patterns[i], string)

\* DirectOption.apply_allowed
apply_allowed(I, opt, config, allowed, allow_empty, remove_if_empty) ==
    LET g == _get(opt, config, allow_empty)
    IN  IF g.err # NoErr THEN [ini |-> I, err |-> g.err]
        ELSE IF ~_matches_any(allowed, g.val)
        THEN [ini |-> I, err |-> Raise("ValueError")]
        ELSE _set(I, opt, g.val, remove_if_empty)

\* DirectOption.apply_multi_allowed
apply_multi_allowed(I, opt, config, allowed, allow_empty, remove_if_empty) ==
    LET g == _get(opt, config, allow_empty)
        toks == split(g.val, ",")
    IN  IF g.err # NoErr THEN [ini |-> I, err |-> g.err]
        ELSE IF g.val # ""
                /\ \E i \in 1..Len(toks) : ~_matches_any(allowed, strip(toks[i]))
        THEN [ini |-> I, err |-> Raise("ValueError")]
        ELSE _set(I, opt, g.val, remove_if_empty)

\* DirectOption.apply_any
apply_any(I, opt, config) == apply_allowed(I, opt, config, <<".*">>, TRUE, FALSE)

\* DirectOption.apply_non_empty
apply_non_empty(I, opt, config) == apply_allowed(I, opt, config, <<".*">>, FALSE, FALSE)

\* DirectOption.apply_non_empty_or_remove
apply_non_empty_or_remove(I, opt, config) ==
    apply_allowed(I, opt, config, <<".*">>, TRUE, TRUE)

\* self._apply(self, config, *self._args, **self._kwargs)
Dispatch(I, opt, config) ==
    CASE opt.apply = "apply_allowed" ->
            apply_allowed(I, opt, config, opt.allowed, opt.allow_empty, opt.remove_if_empty)
      [] opt.apply = "apply_multi_allowed" ->
            apply_multi_allowed(I, opt, config, opt.allowed, opt.allow_empty,
                                opt.remove_if_empty)
      [] opt.apply = "apply_any" -> apply_any(I, opt, config)
      [] opt.apply = "apply_non_empty" -> apply_non_empty(I, opt, config)
      [] opt.apply = "apply_non_empty_or_remove" -> apply_non_empty_or_remove(I, opt, config)

\* an apply that lets the exception of the strategy through as raised
DirectOption_apply_bare(I, opt, config) == Dispatch(I, opt, config)

\* DirectOption.apply: every exception of the strategy is re-raised as
\* ValueError("Value for config '<juju_key>' is invalid") from err
DirectOption_apply(I, opt, config) ==
    LET r == Dispatch(I, opt, config)
    IN  IF r.err = NoErr THEN r
        ELSE [ini |-> r.ini,
              err |-> [type |-> "ValueError", key |-> opt.juju_key, cause |-> r.err.type]]

(***************************************************************************)
(* PathOption.  The operating system's answer to the directory calls is an *)
(* input of the pass: osenv names the call that fails, "ok" if none does.  *)
(* dirs maps each existing directory to its owner and mode.                *)
(***************************************************************************)
\* mode=0o750
PathMode == 488

\* owner="git:git"
PathOwner == "git:git"

\* the user the hooks run as
ProcessOwner == "root:root"

OsOutcomes == {"ok", "makedirs", "getpwnam", "getgrnam", "chown"}

NoDirs == [p \in {} |-> [owner |-> "", mode |-> 0]]

\* os.makedirs(path, mode, exist_ok=True): an existing directory is left as it is
makedirs(D, path, mode) ==
    IF path \in DOMAIN D THEN D
    ELSE [p \in DOMAIN D \cup {path} |->
            IF p = path THEN [owner |-> ProcessOwner, mode |-> mode] ELSE D[p]]

\* os.chown(path, uid, gid)
chown(D, path, owner) == [D EXCEPT ![path].owner = owner]

\* PathOption.apply: no try/except, so every exception reaches the caller as raised
PathOption_apply(I, D, opt, config, osenv) ==
    LET r == apply_non_empty_or_remove(I, opt, config)
        path == _get(opt, config, TRUE).val
        D1 == makedirs(D, path, PathMode)
    IN  IF r.err # NoErr THEN [ini |-> r.ini, dirs |-> D, err |-> r.err]
        ELSE IF path = "" THEN [ini |-> r.ini, dirs |-> D, err |-> NoErr]
        ELSE IF osenv = "makedirs" THEN [ini |-> r.ini, dirs |-> D, err |-> Raise("OSError")]
        ELSE IF osenv \in {"getpwnam", "getgrnam"}
        THEN [ini |-> r.ini, dirs |-> D1, err |-> Raise("KeyError")]
        ELSE IF osenv = "chown" THEN [ini |-> r.ini, dirs |-> D1, err |-> Raise("OSError")]
        ELSE [ini |-> r.ini, dirs |-> chown(D1, path, PathOwner), err |-> NoErr]

\* opt.apply(config), by the class of opt
Option_apply(I, D, opt, config, osenv) ==
    IF opt.cls = "PathOption" THEN PathOption_apply(I, D, opt, config, osenv)
    ELSE LET r == DirectOption_apply(I, opt, config)
         IN  [ini |-> r.ini, dirs |-> D, err |-> r.err]

(***************************************************************************)
(* GiteaConfig.apply: for opt in self._options: opt.apply(config).          *)
(* applied is the trace of the pass: the external keys of the options      *)
(* whose apply was called, in call order.                                  *)
(***************************************************************************)
\* a pass that goes on to the remaining options after a failure and raises
\* the first exception at its end
RECURSIVE ApplyFromAll(_, _, _, _, _, _, _)
ApplyFromAll(I, D, opts, config, osenv, i, applied) ==
    IF i > Len(opts)
    THEN [ini |-> I, dirs |-> D, err |-> NoErr, applied |-> applied]
    ELSE LET r == Option_apply(I, D, opts[i], config, osenv)
             rest == ApplyFromAll(r.ini, r.dirs, opts, config, osenv, i + 1,
                                  Append(applied, opts[i].juju_key))
         IN  IF r.err # NoErr THEN [rest EXCEPT !.err = r.err] ELSE rest

RECURSIVE ApplyFrom(_, _, _, _, _, _, _)
ApplyFrom(I, D, opts, config, osenv, i, applied) ==
    IF i > Len(opts)
    THEN [ini |-> I, dirs |-> D, err |-> NoErr, applied |-> applied]
    ELSE LET r == Option_apply(I, D, opts[i], config, osenv)
             tr == Append(applied, opts[i].juju_key)
         IN  IF r.err # NoErr
             THEN [ini |-> r.ini, dirs |-> r.dirs, err |-> r.err, applied |-> tr]
             ELSE ApplyFrom(r.ini, r.dirs, opts, config, osenv, i + 1, tr)

GiteaConfig_apply(I, D, opts, config, osenv) ==
    ApplyFrom(I, D, opts, config, osenv, 1, <<>>)

\* GiteaConfig.set_db_config: six set calls, the first exception ends it
RECURSIVE SetAll(_, _, _)
SetAll(I, kvs, i) ==
    IF i > Len(kvs) THEN [ini |-> I, err |-> NoErr]
    ELSE LET r == set(I, "database", kvs[i].k, kvs[i].v)
         IN  IF r.err # NoErr THEN r ELSE SetAll(r.ini, kvs, i + 1)

set_db_config(I, username, password, host) ==
    SetAll(I, << [k |-> "DB_TYPE", v |-> "postgres"],
                 [k |-> "SCHEMA", v |-> ""],
                 [k |-> "NAME", v |-> "giteadb"],
                 [k |-> "USER", v |-> username],
                 [k |-> "PASSWD", v |-> password],
                 [k |-> "HOST", v |-> host] >>, 1)

(***************************************************************************)
(* The file at GiteaConfig._path: [exists, lines], lines being its         *)
(* physical lines, each with its line terminator (the last may lack one),  *)
(* as iterating the open file yields them.                                 *)
(***************************************************************************)
NoFile == [exists |-> FALSE, lines |-> <<>>]

FileOf(lines) == [exists |-> TRUE, lines |-> lines]

\* the lines of a text, terminators kept
RECURSIVE SplitLines(_)
SplitLines(text) ==
    LET j == find(text, NL, 1)
    IN  IF Len(text) = 0 THEN <<>>
        ELSE IF j = 0 THEN <<text>>
        ELSE <<SubSeq(text, 1, j)>> \o SplitLines(From(text, j + 1))

\* a key read without a value (allow_no_value=True): Python None
NoValue == "<None>"

\* RawConfigParser._write_section
RECURSIVE WriteItems(_, _)
WriteItems(items, i) ==
    IF i > Len(items) THEN ""
    ELSE items[i].k
         \o (IF items[i].v # NoValue THEN " = " \o replace(items[i].v, NL, NL \o TAB) ELSE "")
         \o NL \o WriteItems(items, i + 1)

_write_section(section_name, items) ==
    "[" \o section_name \o "]" \o NL \o WriteItems(items, 1) \o NL

\* RawConfigParser.write: the DEFAULT section is written only if it holds a key
RECURSIVE WriteSections(_, _)
WriteSections(sections, i) ==
    IF i > Len(sections) THEN ""
    ELSE _write_section(sections[i].k, sections[i].v) \o WriteSections(sections, i + 1)

\* a write that leaves the default section out
write_sections_only(I) == WriteSections(I.sections, 1)

write(I) ==
    (IF Len(I.defaults) > 0 THEN _write_section(default_section, I.defaults) ELSE "")
    \o WriteSections(I.sections, 1)

(***************************************************************************)
(* RawConfigParser._read.  The reader's state: the store being filled, the *)
(* current section (sect, "" for none) and option (opt, "" for none), the  *)
(* indentation of the last header or option line, elements_added, the      *)
(* exception that ended the read (err) and whether a ParsingError is       *)
(* pending (perr).  While reading, a value is its lines joined by "\n".    *)
(***************************************************************************)
ReaderInit(I) ==
    [ini |-> I, sect |-> "", opt |-> "", indent |-> 0, addedSects |-> {},
     addedOpts |-> {}, err |-> NoErr, perr |-> FALSE]

\* cursect[k] = v
CurPut(I, sect, k, v) ==
    IF sect = default_section THEN [I EXCEPT !.defaults = DPut(@, k, v)]
    ELSE [I EXCEPT !.sections = DPut(@, sect, DPut(DGet(@, sect), k, v))]

\* index of the last occurrence of character c in s; 0 if none
RECURSIVE rfind(_, _, _)
rfind(s, c, i) ==
    IF i < 1 THEN 0
    ELSE IF Ch(s, i) = c THEN i
    ELSE rfind(s, c, i - 1)

\* index of the first delimiter ('=' or ':') of value; 0 if none
FirstDelimiter(value) ==
    LET e == find(value, "=", 1)
        c == find(value, ":", 1)
    IN  IF e = 0 THEN c ELSE IF c = 0 THEN e ELSE IF e < c THEN e ELSE c

\* SECTCRE.match(value): a section header line
ReadHeader(P, value) ==
    LET sectname == SubSeq(value, 2, rfind(value, "]", Len(value)) - 1)
    IN  IF has_section(P.ini, sectname)
        THEN IF sectname \in P.addedSects
             THEN [P EXCEPT !.err = Raise("DuplicateSectionError")]
             ELSE [P EXCEPT !.sect = sectname, !.opt = "",
                            !.addedSects = @ \cup {sectname}]
        ELSE IF sectname = default_section
        THEN [P EXCEPT !.sect = sectname, !.opt = ""]
        ELSE [P EXCEPT !.ini.sections = Append(@, [k |-> sectname, v |-> <<>>]),
                       !.sect = sectname, !.opt = "",
                       !.addedSects = @ \cup {sectname}]

\* self._optcre.match(value): an option line
ReadOption(P, value) ==
    LET d == FirstDelimiter(value)
        optname == IF d = 0 THEN value ELSE rstrip(SubSeq(value, 1, d - 1))
        optval == IF d = 0 THEN NoValue ELSE strip(From(value, d + 1))
    IN  IF <<P.sect, optname>> \in P.addedOpts
        THEN [P EXCEPT !.err = Raise("DuplicateOptionError"),
                       !.perr = @ \/ optname = ""]
        ELSE [P EXCEPT !.ini = CurPut(@, P.sect, optname, optval),
                       !.opt = optname,
                       !.addedOpts = @ \cup {<<P.sect, optname>>},
                       !.perr = @ \/ optname = ""]

ReadLine(P, line) ==
    LET st == strip(line)
        comment == st # "" /\ Ch(st, 1) \in {"#", ";"}
        value == IF comment THEN "" ELSE st
        inValue == P.sect # "" /\ P.opt # ""
        cur == Lookup(P.ini, P.sect, P.opt)
        cur_indent_level == Len(line) - Len(lstrip(line))
    IN  IF value = ""
        THEN IF ~comment /\ inValue /\ cur # NoValue
             THEN [P EXCEPT !.ini = CurPut(@, P.sect, P.opt, cur \o NL)]
             ELSE P
        ELSE IF inValue /\ cur_indent_level > P.indent
        THEN IF cur = NoValue
             THEN [P EXCEPT !.err = Raise("AttributeError")]
             ELSE [P EXCEPT !.ini = CurPut(@, P.sect, P.opt, cur \o NL \o value)]
        ELSE IF Ch(value, 1) = "[" /\ rfind(value, "]", Len(value)) >= 3
        THEN ReadHeader([P EXCEPT !.indent = cur_indent_level], value)
        ELSE IF P.sect = ""
        THEN [P EXCEPT !.err = Raise("MissingSectionHeaderError")]
        ELSE ReadOption([P EXCEPT !.indent = cur_indent_level], value)

RECURSIVE ReadLines(_, _, _)
ReadLines(P, lines, i) ==
    IF i > Len(lines) \/ P.err # NoErr THEN P
    ELSE ReadLines(ReadLine(P, lines[i]), lines, i + 1)

\* val = '\n'.join(val).rstrip()
JoinItems(items) ==
    [i \in 1..Len(items) |->
        [k |-> items[i].k,
         v |-> IF items[i].v = NoValue THEN NoValue ELSE rstrip(items[i].v)]]

_join_multiline_values(I) ==
    [I EXCEPT !.defaults = JoinItems(@),
              !.sections = [i \in 1..Len(@) |-> [k |-> @[i].k, v |-> JoinItems(@[i].v)]]]

\* a value of a read that an exception cut short: still the list of its
\* lines, which the store shows as str(list) (lines without quotes or
\* backslashes)
ListRepr(v) == "['" \o join(split(v, NL), "', '") \o "']"

UnjoinedItems(items) ==
    [i \in 1..Len(items) |->
        [k |-> items[i].k,
         v |-> IF items[i].v = NoValue THEN NoValue ELSE ListRepr(items[i].v)]]

_unjoined_values(I) ==
    [I EXCEPT !.defaults = UnjoinedItems(@),
              !.sections = [i \in 1..Len(@) |-> [k |-> @[i].k, v |-> UnjoinedItems(@[i].v)]]]

\* self._ini.read(path) on the lines of the file
_read(I, lines) ==
    LET P == ReadLines(ReaderInit(I), lines, 1)
    IN  IF P.err # NoErr THEN [ini |-> _unjoined_values(P.ini), err |-> P.err]
        ELSE [ini |-> _join_multiline_values(P.ini),
              err |-> IF P.perr THEN Raise("ParsingError") ELSE NoErr]

(***************************************************************************)
(* GiteaConfig.load and GiteaConfig.save                                   *)
(***************************************************************************)
Marker == "[DEFAULT]" \o NL

\* the lines load writes back: a marker line first unless lines[0] is one
InjectMarker(lines) ==
    IF Len(lines) = 0 \/ lines[1] # Marker THEN <<Marker>> \o lines ELSE lines

\* a load that reads the file into the parser it already has
load_merging(I, F) ==
    IF ~F.exists
    THEN [ini |-> EmptyIni, file |-> F, err |-> Raise("FileNotFoundError")]
    ELSE LET lines == InjectMarker(F.lines)
             r == _read(IF I.loaded THEN I ELSE EmptyIni, lines)
         IN  [ini |-> r.ini, file |-> FileOf(lines), err |-> r.err]

\* GiteaConfig.load: the store is replaced by an empty parser before the file
\* is opened
load(I, F) ==
    IF ~F.exists
    THEN [ini |-> EmptyIni, file |-> F, err |-> Raise("FileNotFoundError")]
    ELSE LET lines == InjectMarker(F.lines)
             r == _read(EmptyIni, lines)
         IN  [ini |-> r.ini, file |-> FileOf(lines), err |-> r.err]

\* a save that opens the file for appending
save_appending(I, F) ==
    IF ~I.loaded
    THEN [file |-> FileOf(F.lines), err |-> Raise("AttributeError")]
    ELSE [file |-> FileOf(F.lines \o SplitLines(write(I))), err |-> NoErr]

\* GiteaConfig.save: open(path, "w+") truncates the file before _ini is used
save(I, F) ==
    IF ~I.loaded
    THEN [file |-> FileOf(<<>>), err |-> Raise("AttributeError")]
    ELSE [file |-> FileOf(SplitLines(write(I))), err |-> NoErr]

(***************************************************************************)
(* The option table of GiteaConfig.__init__, in declaration order.  The    *)
(* model registers these entries of the table: one of every strategy and   *)
(* flag combination that the table uses, with their allow-lists.           *)
(***************************************************************************)
_GITEA_LOG_LEVELS ==
    <<"Trace", "Debug", "Info", "Warn", "Error", "Critical", "Fatal", "None">>

_GITEA_REPO_UNITS ==
    <<"repo.code", "repo.releases", "repo.issues", "repo.ext_issues", "repo.pulls",
      "repo.wiki", "repo.ext_wiki", "repo.projects", "repo.packages", "repo.actions">>

Options ==
    << DirectOption("gitea-app-name", "default", "APP_NAME",
                    "apply_non_empty", <<>>, TRUE, TRUE),
       DirectOption("gitea-server-http-port", "server", "HTTP_PORT",
                    "apply_non_empty_or_remove", <<>>, TRUE, TRUE),
       DirectOption("gitea-server-protocol", "server", "PROTOCOL",
                    "apply_allowed",
                    <<"http", "https", "http+unix", "fcgi", "fcgi+unix">>, TRUE, TRUE),
       DirectOption("gitea-log-mode", "log", "MODE",
                    "apply_multi_allowed", <<"console", "file", "conn">>, FALSE, TRUE),
       DirectOption("gitea-log-level", "log", "LEVEL",
                    "apply_allowed", _GITEA_LOG_LEVELS, FALSE, TRUE),
       PathOption("gitea-repository-root", "repository", "ROOT"),
       DirectOption("gitea-repository-disabled-repo-units", "repository",
                    "DISABLED_REPO_UNITS",
                    "apply_multi_allowed", _GITEA_REPO_UNITS, TRUE, TRUE) >>

(***************************************************************************)
(* The calls on the document.  last records the last call: its name, its   *)
(* snapshot argument (config), the exception that reached the caller (err), *)
(* the trace of option applications (applied), the file as it was before   *)
(* the call (disk) and whether the call changed the store (changed).       *)
(* prior keeps the summary of the call before it.                          *)
(***************************************************************************)
\* the answers of the world to a handler when every call succeeds
OkEnv ==
    [stop |-> TRUE, fetch |-> "ok", io |-> "ok", os |-> "ok", start |-> TRUE, sys |-> "ok"]

\* the unit of a document that no charm drives
NoUnit ==
    [charm |-> "none", status |-> "Unknown", message |-> "", running |-> FALSE,
     steps |-> <<>>, raised |-> NoErr, at |-> "", env |-> OkEnv]

Call(op, config, err, applied, disk, changed) ==
    [op |-> op, config |-> config, err |-> err,
     applied |-> applied, disk |-> disk, changed |-> changed]

Summary(l) == [op |-> l.op, err |-> l.err, applied |-> l.applied, changed |-> l.changed]

NoCall == Call("init", EmptyConfig, NoErr, <<>>, NoFile, FALSE)

\* the document serves MaxCalls calls
Serving == calls < MaxCalls

\* every call is counted and recorded
Served(l) ==
    /\ calls' = calls + 1
    /\ last' = l
    /\ prior' = Summary(last)
    /\ unit' = unit

\* the operating system is asked only when a PathOption has a path to provision
OsAsked(config) ==
    \E i \in 1..Len(options) :
        /\ options[i].cls = "PathOption"
        /\ options[i].juju_key \in DOMAIN config
        /\ Truthy(config[options[i].juju_key])

Load ==
    /\ Serving
    /\ \E r \in {load(ini, file)} :
        /\ ini' = r.ini
        /\ file' = r.file
        /\ Served(Call("load", EmptyConfig, r.err, <<>>, file, r.ini # ini))
        /\ UNCHANGED <<dirs, options>>

\* an apply that writes the store to the file when its pass ends
ApplySaving(config, osenv) ==
    /\ Serving
    /\ osenv = "ok" \/ OsAsked(config)
    /\ \E r \in {GiteaConfig_apply(ini, dirs, options, config, osenv)} :
        /\ ini' = r.ini
        /\ dirs' = r.dirs
        /\ file' = save(r.ini, file).file
        /\ Served(Call("apply", config, r.err, r.applied, file, r.ini # ini))
        /\ UNCHANGED options

\* an apply that removes the directories of the pass when the pass fails
ApplyRollingBack(config, osenv) ==
    /\ Serving
    /\ osenv = "ok" \/ OsAsked(config)
    /\ \E r \in {GiteaConfig_apply(ini, dirs, options, config, osenv)} :
        /\ ini' = r.ini
        /\ dirs' = IF r.err # NoErr THEN dirs ELSE r.dirs
        /\ Served(Call("apply", config, r.err, r.applied, file, r.ini # ini))
        /\ UNCHANGED <<file, options>>

Apply(config, osenv) ==
    /\ Serving
    /\ osenv = "ok" \/ OsAsked(config)
    /\ \E r \in {GiteaConfig_apply(ini, dirs, options, config, osenv)} :
        /\ ini' = r.ini
        /\ dirs' = r.dirs
        /\ Served(Call("apply", config, r.err, r.applied, file, r.ini # ini))
        /\ UNCHANGED <<file, options>>

Save ==
    /\ Serving
    /\ \E r \in {save(ini, file)} :
        /\ file' = r.file
        /\ Served(Call("save", EmptyConfig, r.err, <<>>, file, FALSE))
        /\ UNCHANGED <<ini, dirs, options>>

SetDbConfig(username, password, host) ==
    /\ Serving
    /\ \E r \in {set_db_config(ini, username, password, host)} :
        /\ ini' = r.ini
        /\ Served(Call("set_db_config", EmptyConfig, r.err, <<>>, file, r.ini # ini))
        /\ UNCHANGED <<file, dirs, options>>

\* GiteaConfig.set called by a user of the document
Set(ini_sect, ini_key, val) ==
    /\ Serving
    /\ \E r \in {set(ini, ini_sect, ini_key, val)} :
        /\ ini' = r.ini
        /\ Served(Call("set", EmptyConfig, r.err, <<>>, file, r.ini # ini))
        /\ UNCHANGED <<file, dirs, options>>

\* GiteaConfig.ensure_section called by a user of the document
EnsureSection(section) ==
    /\ Serving
    /\ \E r \in {ensure_section(ini, section)} :
        /\ ini' = r.ini
        /\ Served(Call("ensure_section", EmptyConfig, r.err, <<>>, file, r.ini # ini))
        /\ UNCHANGED <<file, dirs, options>>

\* GiteaConfig.remove called by a user of the document
Remove(ini_sect, ini_key) ==
    /\ Serving
    /\ \E r \in {remove(ini, ini_sect, ini_key)} :
        /\ ini' = r.ini
        /\ Served(Call("remove", EmptyConfig, r.err, <<>>, file, r.ini # ini))
        /\ UNCHANGED <<file, dirs, options>>

(***************************************************************************)
(* Spec: the document of the charm, from construction.                     *)
(***************************************************************************)
\* the snapshot on which every registered option succeeds
BaseConfig ==
    [k \in {"gitea-app-name", "gitea-server-http-port", "gitea-server-protocol",
            "gitea-log-mode", "gitea-log-level", "gitea-repository-root",
            "gitea-repository-disabled-repo-units"} |->
        CASE k = "gitea-app-name" -> StrVal("Gitea")
          [] k = "gitea-server-http-port" -> IntVal(3000)
          [] k = "gitea-server-protocol" -> StrVal("https")
          [] k = "gitea-log-mode" -> StrVal("console, file")
          [] k = "gitea-log-level" -> StrVal("Info")
          [] k = "gitea-repository-root" -> StrVal("/data/git")
          [] k = "gitea-repository-disabled-repo-units" -> StrVal("repo.wiki")]

\* the other settings of each key; Unset: the key is not in the snapshot
Unset == [t |-> "unset", s |-> "", n |-> 0]

Alternatives(k) ==
    CASE k = "gitea-app-name" -> {Unset}
      [] k = "gitea-server-http-port" -> {Unset}
      [] k = "gitea-server-protocol" -> {StrVal("ftp")}
      [] k = "gitea-log-mode" -> {StrVal("console,z")}
      [] k = "gitea-log-level" -> {StrVal("")}
      [] k = "gitea-repository-root" -> {Unset}
      [] k = "gitea-repository-disabled-repo-units" -> {StrVal("repo.code,")}

\* BaseConfig with key d set to v
Deviate(d, v) ==
    [k \in {x \in DOMAIN BaseConfig : x # d \/ v # Unset} |->
        IF k = d THEN v ELSE BaseConfig[k]]

\* the snapshots the charm hands to apply: the base snapshot and the ones
\* that differ from it in one key
\* the snapshot that holds the two server keys and nothing else
ServerOnly ==
    [k \in {"gitea-server-http-port", "gitea-server-protocol"} |->
        IF k = "gitea-server-http-port" THEN StrVal("3000") ELSE StrVal("https")]

Snapshots ==
    {BaseConfig, ServerOnly}
    \cup UNION {{Deviate(d, v) : v \in Alternatives(d)} : d \in DOMAIN BaseConfig}

\* the files the charm may find at the path when it is constructed
InitFiles ==
    { NoFile,
      FileOf(<<>>),
      FileOf(<<"[server]" \o NL, "HTTP_PORT = 8080" \o NL, "PROTOCOL = http" \o NL,
               "[database]" \o NL, "DB_TYPE = sqlite3" \o NL>>),
      FileOf(<<Marker, "APP_NAME = Old" \o NL, NL, "[server]" \o NL,
               "HTTP_PORT = 8080" \o NL, NL, "[log]" \o NL, "LEVEL = Warn" \o NL, NL>>) }

DbCredentials ==
    { <<"svcuser", "s3cr3t", "db-0:5432">> }

Init ==
    /\ ini = NoIni
    /\ file \in InitFiles
    /\ dirs = NoDirs
    /\ options = Options
    /\ last = NoCall
    /\ prior = Summary(NoCall)
    /\ calls = 0
    /\ unit = NoUnit

Next ==
    \/ Load
    \/ \E config \in Snapshots, osenv \in OsOutcomes : Apply(config, osenv)
    \/ Save
    \/ \E c \in DbCredentials : SetDbConfig(c[1], c[2], c[3])

Spec == Init /\ [][Next]_vars

(***************************************************************************)
(* SpecOpt: one option of any strategy, registered alone in a loaded       *)
(* document, applied once to a snapshot that holds any value for its key.  *)
(***************************************************************************)
Alphabet == {"a", ",", " ", "%", NL}

\* the strings over Alphabet of length n or less
RECURSIVE Strings(_)
Strings(n) ==
    IF n = 0 THEN {""}
    ELSE LET shorter == Strings(n - 1)
         IN  shorter \cup {s \o c : s \in shorter, c \in Alphabet}

TestValues ==
    {StrVal(s) : s \in Strings(MaxLen)}
    \cup {IntVal(0), IntVal(7), BoolVal(FALSE), BoolVal(TRUE)}

TestConfigs == {EmptyConfig} \cup {[k \in {"opt"} |-> v] : v \in TestValues}

TestAllowLists == { <<"a", "aaa">>, <<"a*">>, <<"a.a">>, <<".*">>, <<>> }

TestOptions ==
    {DirectOption("opt", "server", "KEY", apply, allowed, allow_empty, remove_if_empty) :
        apply \in {"apply_allowed", "apply_multi_allowed"}, allowed \in TestAllowLists,
        allow_empty \in BOOLEAN, remove_if_empty \in BOOLEAN}
    \cup {DirectOption("opt", "server", "KEY", apply, <<>>, TRUE, TRUE) :
            apply \in {"apply_any", "apply_non_empty", "apply_non_empty_or_remove"}}
    \cup {PathOption("opt", "server", "KEY")}

\* the stores the option finds: no section, the section without the key, the
\* key holding a value
TestStores ==
    { EmptyIni,
      [EmptyIni EXCEPT !.sections = <<[k |-> "server", v |-> <<[k |-> "OTHER", v |-> "x"]>>]>>],
      [EmptyIni EXCEPT !.sections = <<[k |-> "server", v |-> <<[k |-> "KEY", v |-> "foo"],
                                                               [k |-> "OTHER", v |-> "x"]>>]>>] }

\* the directories a PathOption finds: none, one at the path "a" that another
\* user made with mode 0o755, one at "a" with the owner and mode of the option
TestDirs ==
    { NoDirs,
      [p \in {"a"} |-> [owner |-> ProcessOwner, mode |-> 493]],
      [p \in {"a"} |-> [owner |-> PathOwner, mode |-> PathMode]] }

InitOpt ==
    /\ ini \in TestStores
    /\ file = NoFile
    /\ options \in {<<o>> : o \in TestOptions}
    /\ dirs \in IF options[1].cls = "PathOption" THEN TestDirs ELSE {NoDirs}
    /\ last = NoCall
    /\ prior = Summary(NoCall)
    /\ calls = 0
    /\ unit = NoUnit

NextOpt ==
    /\ last.op = "init"
    /\ \E config \in TestConfigs, osenv \in OsOutcomes : Apply(config, osenv)

SpecOpt == InitOpt /\ [][NextOpt]_vars


(***************************************************************************)
(* SpecFile: the document over any short file, under load and save.        *)
(***************************************************************************)
\* lines a file is made of; an unterminated line can only be the last one
FileLines ==
    {Marker, "[DEFAULT]", "[server]" \o NL, "Key = v" \o NL, "key = w" \o NL, "K2 = x"}

Terminated(line) == Len(line) > 0 /\ Ch(line, Len(line)) = NL

\* the files of n lines or fewer
RECURSIVE FilesUpTo(_)
FilesUpTo(n) ==
    IF n = 0 THEN {<<>>}
    ELSE LET shorter == FilesUpTo(n - 1)
         IN  shorter \cup {Append(f, l) : f \in {g \in shorter : \A i \in 1..Len(g) : Terminated(g[i])},
                                        l \in FileLines}

TestFiles == {NoFile} \cup {FileOf(f) : f \in FilesUpTo(MaxLines)}

InitFile ==
    /\ ini = NoIni
    /\ file \in TestFiles
    /\ dirs = NoDirs
    /\ options = Options
    /\ last = NoCall
    /\ prior = Summary(NoCall)
    /\ calls = 0
    /\ unit = NoUnit

NextFile ==
    \/ Load
    \/ Save

SpecFile == InitFile /\ [][NextFile]_vars

(***************************************************************************)
(* SpecPrim: the document under the calls of a user that bypasses the      *)
(* options: load, save, set, remove and set_db_config.                     *)
(***************************************************************************)
PrimFiles ==
    { FileOf(<<>>),
      FileOf(<<"[server]" \o NL, "HTTP_PORT = 8080" \o NL>>),
      FileOf(<<Marker, "APP_NAME = Old" \o NL, NL, "[database]" \o NL,
               "DB_TYPE = sqlite3" \o NL, "USER = old" \o NL, NL>>) }

PrimSections == {"server", "database", "default"}

PrimKeys == {"HTTP_PORT", "USER"}

PrimValues == {"v", "50%"}

PrimCredentials ==
    { <<"svcuser", "s3cr3t", "db-0:5432">>, <<"svc", "p%w", "db-0:5432">> }

InitPrim ==
    /\ \E f \in PrimFiles :
          \/ ini = NoIni /\ file = f
          \/ ini = load(NoIni, f).ini /\ file = load(NoIni, f).file
    /\ dirs = NoDirs
    /\ options = Options
    /\ last = NoCall
    /\ prior = Summary(NoCall)
    /\ calls = 0
    /\ unit = NoUnit

NextPrim ==
    \/ Load
    \/ Save
    \/ \E s \in PrimSections, k \in PrimKeys, v \in PrimValues : Set(s, k, v)
    \/ \E s \in PrimSections, k \in PrimKeys : Remove(s, k)
    \/ \E c \in PrimCredentials : SetDbConfig(c[1], c[2], c[3])
    \/ \E config \in {BaseConfig, ServerOnly} : Apply(config, "ok")

SpecPrim == InitPrim /\ [][NextPrim]_vars

(***************************************************************************)
(* SpecOrder: one pass of apply over the option table taken in several     *)
(* orders, on the stores that load leaves from the files of InitFiles.     *)
(***************************************************************************)
\* the table in declaration order, reversed, with its first n entries moved
\* to the end, and with entries i and i + 1 exchanged
Orders ==
    LET s == Options
        Reversed == [i \in 1..Len(s) |-> s[Len(s) + 1 - i]]
        Rotated(n) == SubSeq(s, n + 1, Len(s)) \o SubSeq(s, 1, n)
        Swapped(i) == [s EXCEPT ![i] = s[i + 1], ![i + 1] = s[i]]
    IN  {s, Reversed}
        \cup {Rotated(n) : n \in 1..(Len(s) - 1)}
        \cup {Swapped(i) : i \in 1..(Len(s) - 1)}

InitOrder ==
    /\ \E f \in {g \in InitFiles : g.exists} :
          /\ ini = load(NoIni, f).ini
          /\ file = load(NoIni, f).file
    /\ dirs = NoDirs
    /\ options \in Orders
    /\ last = NoCall
    /\ prior = Summary(NoCall)
    /\ calls = 0
    /\ unit = NoUnit

NextOrder ==
    /\ last.op = "init"
    /\ \E config \in Snapshots : Apply(config, "ok")

SpecOrder == InitOrder /\ [][NextOrder]_vars

(***************************************************************************)
(* SpecAlias: the mutation primitives called with the spellings of the     *)
(* reserved section name and with two spellings of an ordinary one.        *)
(***************************************************************************)
AliasSpellings == {"default", "Default", "DEFAULT"}

AliasSections == AliasSpellings \cup {"server", "Server"}

AliasKeys == {"APP_NAME", "app_name"}

AliasFiles ==
    { FileOf(<<>>),
      FileOf(<<Marker, "APP_NAME = Old" \o NL, NL, "[server]" \o NL, "APP_NAME = s" \o NL, NL>>) }

InitAlias ==
    /\ \E f \in AliasFiles :
          \/ ini = NoIni /\ file = f
          \/ ini = load(NoIni, f).ini /\ file = load(NoIni, f).file
    /\ dirs = NoDirs
    /\ options = Options
    /\ last = NoCall
    /\ prior = Summary(NoCall)
    /\ calls = 0
    /\ unit = NoUnit

NextAlias ==
    \/ Load
    \/ Save
    \/ \E s \in AliasSections : EnsureSection(s)
    \/ \E s \in AliasSections, k \in AliasKeys : Set(s, k, "v")
    \/ \E s \in AliasSections, k \in AliasKeys : Remove(s, k)

SpecAlias == InitAlias /\ [][NextAlias]_vars

(***************************************************************************)
(* The charms: KernelTeamGiteaCharm (src/charm-source/src/charm.py) and    *)
(* GiteaRunnerCharm (src/runner-charm-source/src/charm.py).  unit holds    *)
(* which charm runs the unit (charm), the status the charm last assigned   *)
(* to self.unit.status (status, message), whether the service runs         *)
(* (running), the calls the last handler made, in order (steps), and the   *)
(* exception raised inside the last handler, caught or not (raised), with  *)
(* the call that raised it (at), and the answers the world gave to the     *)
(* last handler (env).  The                                                *)
(* answers of the world to a handler are its input env: whether            *)
(* service_stop and service_start report success (stop, start), how        *)
(* resources.fetch ends (fetch), which file call of the document fails     *)
(* with an OSError (io), which directory call of a PathOption fails (os)   *)
(* and which system step of install or upgrade fails (sys).                *)
(***************************************************************************)
\* a handler begins: the trace starts anew
Begin(U) == [U EXCEPT !.steps = <<>>, !.raised = NoErr, !.at = ""]

Step(U, s) == [U EXCEPT !.steps = Append(@, s)]

\* self.unit.status = <status>(message)
Status(U, status, message) == [U EXCEPT !.status = status, !.message = message]

\* an exception raised by the last step of the trace
Raised(U, e) == [U EXCEPT !.raised = e, !.at = U.steps[Len(U.steps)]]

\* _stop_gitea / _stop_runner: systemd.service_stop
_stop_gitea(U, ok) == [Step(U, "stop") EXCEPT !.running = IF ok THEN FALSE ELSE @]

\* _start_gitea / _start_runner: systemd.service_start
_start_gitea(U, ok) == [Step(U, "start") EXCEPT !.running = IF ok THEN TRUE ELSE @]

\* if self._gitea_running(): self._stop_gitea()
StopIfRunning(U, ok) == IF U.running THEN _stop_gitea(U, ok) ELSE U

\* " ".join(e.args) of the ValueError that apply raised: the wrapper's text
\* for a DirectOption, the parser's text for the set of a PathOption
Message(e) ==
    IF e.key # "" THEN "Value for config '" \o e.key \o "' is invalid"
    ELSE "invalid interpolation syntax"

\* what a handler leaves: the document, the directories, the unit, the
\* exception that leaves the handler and the trace of the apply pass
Left(I, F, D, U, err, applied) ==
    [ini |-> I, file |-> F, dirs |-> D, unit |-> U, err |-> err, applied |-> applied]

\* GiteaConfig.load when opening the file may fail; loaded is what load
\* leaves when no call fails
load_io(loaded, F, io) ==
    IF io = "load"
    THEN [ini |-> EmptyIni, file |-> F, err |-> Raise("PermissionError")]
    ELSE loaded

\* GiteaConfig.save when opening the file may fail
save_io(I, F, io) ==
    IF io = "save" THEN [file |-> F, err |-> Raise("PermissionError")]
    ELSE save(I, F)

\* a handler that writes the store to the file before it reports the failure
\* of apply
ApplyFailedSaving(A, L, U) ==
    Left(A.ini, save(A.ini, L.file).file, A.dirs,
         Step(Status(Raised(U, A.err), "Blocked", Message(A.err)), "save"), NoErr, A.applied)

\* _on_config_changed when apply has raised: except ValueError sets the
\* status and returns, any other exception leaves the handler
ApplyFailed(A, L, U) ==
    IF A.err.type = "ValueError"
    THEN Left(A.ini, L.file, A.dirs,
              Status(Raised(U, A.err), "Blocked", Message(A.err)), NoErr, A.applied)
    ELSE Left(A.ini, L.file, A.dirs, Raised(U, A.err), A.err, A.applied)

\* KernelTeamGiteaCharm._on_config_changed; loaded is load(I, F) and applied
\* is GiteaConfig_apply(loaded.ini, D, opts, config, env.os), which the
\* action computes once for all the inputs of the handler that share them
_on_config_changed(I, F, D, U, config, env, loaded, applied) ==
    LET U1 == Step(StopIfRunning(Begin(U), env.stop), "fetch")
        L == load_io(loaded, F, env.io)
        U2 == Step(U1, "load")
        A == applied
        U3 == Step(U2, "apply")
        S == save_io(A.ini, L.file, env.io)
        U4 == Step(U3, "save")
        U5 == Step(U4, "set_ports")
        U6 == _start_gitea(U5, env.start)
    IN  IF env.fetch # "ok"
        THEN Left(I, F, D,
                  Status(U1, "Blocked", "Something went wrong when claiming resource"),
                  NoErr, <<>>)
        ELSE IF L.err # NoErr
        THEN Left(L.ini, L.file, D, Raised(U2, L.err), L.err, <<>>)
        ELSE IF A.err # NoErr THEN ApplyFailed(A, L, U3)
        ELSE IF S.err # NoErr
        THEN Left(A.ini, S.file, A.dirs, Raised(U4, S.err), S.err, A.applied)
        ELSE IF "gitea-server-http-port" \notin DOMAIN config
        THEN Left(A.ini, S.file, A.dirs, Raised(U5, Raise("KeyError")),
                  Raise("KeyError"), A.applied)
        ELSE IF ~env.start
        THEN Left(A.ini, S.file, A.dirs,
                  Status(U6, "Blocked", "Failed to start Gitea after config change"),
                  NoErr, A.applied)
        ELSE Left(A.ini, S.file, A.dirs, Status(U6, "Active", "Gitea Running"),
                  NoErr, A.applied)

\* a test of the credentials that looks at the username alone
IncompleteUsername(username, password, endpoints) == username = ""

\* if not event.username or not event.password or not event.endpoints; a
\* field that the event lacks is None, which the test takes as it takes ""
Incomplete(username, password, endpoints) ==
    username = "" \/ password = "" \/ endpoints = ""

\* KernelTeamGiteaCharm._on_database_created; loaded is load(I, F)
_on_database_created(I, F, D, U, username, password, endpoints, env, loaded) ==
    LET U1 == Step(StopIfRunning(Begin(U), env.stop), "load")
        L == load_io(loaded, F, env.io)
        R == set_db_config(L.ini, username, password, endpoints)
        U2 == Step(U1, "set_db_config")
        S == save_io(R.ini, L.file, env.io)
        U3 == Step(U2, "save")
        U4 == _start_gitea(U3, env.start)
    IN  IF Incomplete(username, password, endpoints)
        THEN Left(I, F, D, Status(Begin(U), "Blocked", "Failed to configure database"),
                  NoErr, <<>>)
        ELSE IF L.err # NoErr
        THEN Left(L.ini, L.file, D, Raised(U1, L.err), L.err, <<>>)
        ELSE IF R.err # NoErr
        THEN Left(R.ini, L.file, D, Raised(U2, R.err), R.err, <<>>)
        ELSE IF S.err # NoErr
        THEN Left(R.ini, S.file, D, Raised(U3, S.err), S.err, <<>>)
        ELSE IF ~env.start
        THEN Left(R.ini, S.file, D,
                  Status(U4, "Blocked", "Failed to start Gitea after database config change"),
                  NoErr, <<>>)
        ELSE Left(R.ini, S.file, D, Status(U4, "Active", "Gitea Running"), NoErr, <<>>)

\* the steps of _on_install after the binary is installed, for each charm;
\* service_resume enables the service and starts it
InstallSteps(charm) ==
    IF charm = "gitea"
    THEN <<"apt", "add_user", "directories", "template", "daemon_reload", "service_resume">>
    ELSE <<"apt", "service_start_docker", "add_user", "directories", "generate_config",
           "template", "daemon_reload">>

\* the exception with which a failing step of install leaves the handler;
\* _gitea_required_directories names CalledProcessError without importing it
StepError(charm, s) ==
    IF s \in {"daemon_reload", "service_resume"} /\ charm = "gitea" THEN Raise("RuntimeError")
    ELSE IF s = "directories" /\ charm = "gitea" THEN Raise("NameError")
    ELSE IF s \in {"copy", "template"} THEN Raise("OSError")
    ELSE IF s = "add_user" THEN Raise("ValueError")
    ELSE Raise("CalledProcessError")

\* the steps of steps from the i-th on, up to the one that fails
RECURSIVE RunSteps(_, _, _, _)
RunSteps(U, steps, i, sys) ==
    IF i > Len(steps) THEN U
    ELSE IF steps[i] = sys THEN Raised(Step(U, steps[i]), StepError(U.charm, sys))
    ELSE RunSteps([Step(U, steps[i]) EXCEPT
                      !.running = IF steps[i] = "service_resume" THEN TRUE ELSE @],
                  steps, i + 1, sys)

\* an installation that goes on to the copy when the fetch has failed
InstallBinaryUnchecked(U, env) ==
    IF env.sys = "copy"
    THEN Raised(Step(Step(U, "fetch"), "copy"), StepError(U.charm, "copy"))
    ELSE Step(Step(U, "fetch"), "copy")

\* _gitea_resource, _gitea_install_resource (and the runner's) as install
\* and upgrade call them: the unit after them, raised set when one failed
InstallBinary(U, env) ==
    LET U1 == Step(U, "fetch")
    IN  IF env.fetch # "ok" THEN Raised(U1, Raise("MissingResourceError"))
        ELSE IF env.sys = "copy" THEN Raised(Step(U1, "copy"), StepError(U.charm, "copy"))
        ELSE Step(U1, "copy")

\* what _install_template("app.ini.j2", "/etc/gitea/conf/app.ini", ...) writes.
\* The template is not among the sources; this text stands for its rendering.
AppIniTemplate ==
    FileOf(<<Marker, "APP_NAME = Old" \o NL, NL, "[database]" \o NL,
             "DB_TYPE = sqlite3" \o NL, NL>>)

\* _on_install of both charms; the Gitea charm's template step writes the
\* configuration file
_on_install(I, F, D, U, env) ==
    LET U1 == InstallBinary(Status(Begin(U), "Maintenance", "Begin install"), env)
        U2 == RunSteps(Status(U1, "Maintenance", "Install"), InstallSteps(U.charm), 1, env.sys)
        templated == \E i \in 1..Len(U2.steps) :
                        U2.steps[i] = "template" /\ (i < Len(U2.steps) \/ U2.raised = NoErr)
        F2 == IF U.charm = "gitea" /\ templated THEN AppIniTemplate ELSE F
    IN  IF U1.raised # NoErr THEN Left(I, F, D, U1, U1.raised, <<>>)
        ELSE IF U2.raised # NoErr THEN Left(I, F2, D, U2, U2.raised, <<>>)
        ELSE Left(I, F2, D, Status(U2, "Active", ""), NoErr, <<>>)

\* _on_upgrade_charm of both charms
_on_upgrade_charm(I, F, D, U, env) ==
    LET U0 == IF U.charm = "gitea" THEN Status(Begin(U), "Maintenance", "Upgrading Charm")
              ELSE Begin(U)
        U1 == InstallBinary(StopIfRunning(U0, env.stop), env)
        U2 == _start_gitea(U1, env.start)
        name == IF U.charm = "gitea" THEN "Gitea" ELSE "runner"
    IN  IF U1.raised # NoErr THEN Left(I, F, D, U1, U1.raised, <<>>)
        ELSE IF ~env.start
        THEN Left(I, F, D, Status(U2, "Blocked", "Failed to start " \o name \o " after upgrade"),
                  NoErr, <<>>)
        ELSE Left(I, F, D, Status(U2, "Active", IF U.charm = "gitea" THEN "Gitea Running"
                                                 ELSE "Runner Running"), NoErr, <<>>)

\* _on_start: the Gitea charm waits for the database, the runner opens its port
_on_start(I, F, D, U) ==
    IF U.charm = "gitea"
    THEN Left(I, F, D, Status(Begin(U), "Waiting", "awaiting postgresql db"), NoErr, <<>>)
    ELSE Left(I, F, D, Step(Begin(U), "set_ports"), NoErr, <<>>)

\* the answers in which at most one call after the stop request fails: no
\* handler goes on after the first call that fails; of the directory calls,
\* one that raises OSError and one that raises KeyError
Faults ==
    {OkEnv}
    \cup {[OkEnv EXCEPT !.fetch = f] : f \in {"ModelError", "NameError"}}
    \cup {[OkEnv EXCEPT !.io = x] : x \in {"load", "save"}}
    \cup {[OkEnv EXCEPT !.os = o] : o \in {"makedirs", "getpwnam"}}
    \cup {[OkEnv EXCEPT !.start = FALSE]}
    \cup {[OkEnv EXCEPT !.sys = s] :
            s \in {"copy"} \cup {InstallSteps(c)[i] : c \in {"gitea", "runner"}, i \in 1..6}}

\* and the ones in which the stop request reports failure and every later
\* call succeeds, or the start request fails as well
HookEnvs ==
    Faults \cup {[OkEnv EXCEPT !.stop = FALSE], [OkEnv EXCEPT !.stop = FALSE, !.start = FALSE]}

\* the snapshots config-changed hands to apply: every option valid, a value
\* outside its allow-list, no port
CharmSnapshots ==
    {BaseConfig, Deviate("gitea-server-protocol", StrVal("ftp")),
     Deviate("gitea-server-http-port", Unset)}

\* the credentials of database-created: complete, and with each field
\* missing or empty
CharmCredentials ==
    { <<"svcuser", "s3cr3t", "db-0:5432">>, <<"", "s3cr3t", "db-0:5432">>,
      <<"svcuser", "", "db-0:5432">>, <<"svcuser", "s3cr3t", "">> }

\* the fields of a database-created event, as the record of the call keeps them
EventFields(c) ==
    [k \in {"username", "password", "endpoints"} |->
        StrVal(IF k = "username" THEN c[1] ELSE IF k = "password" THEN c[2] ELSE c[3])]

\* the unit handles MaxHooks events
Handling == calls < MaxHooks

\* the handler's run is recorded as the last call
Handled(name, config, env, r) ==
    /\ ini' = r.ini
    /\ file' = r.file
    /\ dirs' = r.dirs
    /\ unit' = [r.unit EXCEPT !.env = env]
    /\ calls' = calls + 1
    /\ last' = Call(name, config, r.err, r.applied, file, r.ini # ini)
    /\ prior' = Summary(last)
    /\ UNCHANGED options

\* a config-changed event, with any snapshot and any answers of the world;
\* apply is not reached when load has raised
ConfigChanged ==
    /\ Handling
    /\ unit.charm = "gitea"
    /\ \E loaded \in {load(ini, file)} :
        \E config \in CharmSnapshots, os \in {e.os : e \in HookEnvs} :
            /\ os = "ok" \/ OsAsked(config)
            /\ \E applied \in {IF loaded.err # NoErr THEN loaded
                                ELSE GiteaConfig_apply(loaded.ini, dirs, options, config, os)} :
                \E env \in {e \in HookEnvs : e.os = os} :
                    /\ env.sys = "ok"
                    /\ env.stop \/ unit.running
                    /\ \E r \in {_on_config_changed(ini, file, dirs, unit, config, env,
                                                     loaded, applied)} :
                           Handled("config_changed", config, env, r)

\* a database-created event, with any credentials and any answers of the
\* world; the world is not asked when a field of the event is empty
DatabaseCreated ==
    /\ Handling
    /\ unit.charm = "gitea"
    /\ \E loaded \in {load(ini, file)} :
        \E c \in CharmCredentials, env \in HookEnvs :
            /\ env.sys = "ok" /\ env.os = "ok" /\ env.fetch = "ok"
            /\ env.stop \/ unit.running
            /\ env = OkEnv \/ \A i \in 1..3 : c[i] # ""
            /\ \E r \in {_on_database_created(ini, file, dirs, unit, c[1], c[2], c[3], env, loaded)} :
                   Handled("database_created", EventFields(c), env, r)

Install(env) ==
    /\ Handling
    /\ unit.charm # "none"
    /\ env.os = "ok" /\ env.io = "ok" /\ env.start /\ env.stop
    /\ env.sys \in {"ok", "copy"} \/ \E i \in 1..Len(InstallSteps(unit.charm)) :
                                        InstallSteps(unit.charm)[i] = env.sys
    /\ \E r \in {_on_install(ini, file, dirs, unit, env)} : Handled("install", EmptyConfig, env, r)

UpgradeCharm(env) ==
    /\ Handling
    /\ unit.charm # "none"
    /\ env.os = "ok" /\ env.io = "ok" /\ env.sys \in {"ok", "copy"}
    /\ env.stop \/ unit.running
    /\ \E r \in {_on_upgrade_charm(ini, file, dirs, unit, env)} :
           Handled("upgrade_charm", EmptyConfig, env, r)

Start ==
    /\ Handling
    /\ unit.charm # "none"
    /\ \E r \in {_on_start(ini, file, dirs, unit)} : Handled("start", EmptyConfig, OkEnv, r)

(***************************************************************************)
(* SpecCharm: the events of a unit of either charm, in any order.          *)
(***************************************************************************)
CharmFiles == {NoFile, FileOf(<<>>), AppIniTemplate}

InitCharm ==
    /\ ini = NoIni
    /\ file \in CharmFiles
    /\ dirs = NoDirs
    /\ options = Options
    /\ last = NoCall
    /\ prior = Summary(NoCall)
    /\ calls = 0
    /\ unit \in {[NoUnit EXCEPT !.charm = c] : c \in {"gitea", "runner"}}

NextCharm ==
    \/ Start
    \/ \E env \in HookEnvs : Install(env)
    \/ \E env \in HookEnvs : UpgradeCharm(env)
    \/ ConfigChanged
    \/ DatabaseCreated

SpecCharm == InitCharm /\ [][NextCharm]_vars

(***************************************************************************)
(* Properties.  A step of apply is a step whose new last call is "apply";  *)
(* the unprimed variables are the state the call found.                    *)
(***************************************************************************)
ApplyStep == last'.op = "apply" /\ calls' = calls + 1

\* the section GiteaConfig.set and the parser address for an option
DestSect(o) == IF lower(o.ini_sect) = "default" THEN default_section ELSE o.ini_sect

\* the value at the destination key of option o in store I
Dest(I, o) == Lookup(I, DestSect(o), o.ini_key)

\* the external key of option o is absent from the snapshot or holds ""
ExtUnset(config, o) ==
    o.juju_key \notin DOMAIN config \/ config[o.juju_key] = StrVal("")

\* the external key of option o holds a non-empty string
ExtString(config, o) ==
    /\ o.juju_key \in DOMAIN config
    /\ config[o.juju_key].t = "str"
    /\ config[o.juju_key].s # ""

\* what a successful option of the table leaves at its destination key
Expected(config, o) ==
    IF o.juju_key \in DOMAIN config /\ Truthy(config[o.juju_key])
    THEN PyStr(config[o.juju_key])
    ELSE Absent

\* C1: GiteaConfig.apply invokes the options in declaration order and stops
\* at the first one that fails: the trace of a pass is a prefix of the table,
\* the whole table when the pass succeeds; when it fails the exception
\* reaches the caller and is the one of the last option invoked, every
\* option before it has left its value in the store, and the destination
\* key of every option after it is as the pass found it.
C1_StopsAtFirstFailure ==
    [][ApplyStep =>
        LET n == Len(last'.applied)
            e == last'.err
        IN  /\ n >= 1 /\ n <= Len(options)
            /\ \A i \in 1..n : last'.applied[i] = options[i].juju_key
            /\ e = NoErr => n = Len(options)
            /\ \A i \in 1..(n - 1) : Dest(ini', options[i]) = Expected(last'.config, options[i])
            /\ e = NoErr => Dest(ini', options[n]) = Expected(last'.config, options[n])
            /\ e # NoErr =>
                /\ IF options[n].cls = "PathOption" THEN e.key = ""
                   ELSE e.key = options[n].juju_key
                /\ \A i \in (n + 1)..Len(options) :
                       Dest(ini', options[i]) = Dest(ini, options[i])]_vars

\* a pass on a loaded store that failed at its third option or later, after
\* the earlier options changed the store, with options left to apply
C1_Witness ==
    /\ last.op = "apply"
    /\ last.err # NoErr
    /\ ini.loaded
    /\ last.changed
    /\ Len(last.applied) >= 3
    /\ Len(last.applied) < Len(options)
    /\ Dest(ini, options[1]) = Expected(last.config, options[1])


\* the store that the lines of a file hold
OnDisk(F) == _read(EmptyIni, InjectMarker(F.lines)).ini

\* C2: the durability boundary is save, not apply: when a pass in which an
\* earlier option succeeded and a later one failed is followed, with no save
\* between, by a load that succeeds, the loaded store holds at every
\* destination key the value the file held before the pass.
C2_LoadDiscardsPartialPass ==
    [][(/\ last.op = "apply"
        /\ last.err # NoErr
        /\ Len(last.applied) > 1
        /\ last'.op = "load"
        /\ calls' = calls + 1
        /\ last'.err = NoErr)
       => \A i \in 1..Len(options) :
              Dest(ini', options[i]) = Dest(OnDisk(last.disk), options[i])]_vars

\* a load that succeeded right after a failed pass whose earlier options had
\* changed the store, and that changed the store back
C2_Witness ==
    /\ last.op = "load"
    /\ last.err = NoErr
    /\ last.changed
    /\ prior.op = "apply"
    /\ prior.err # NoErr
    /\ prior.changed
    /\ Len(prior.applied) > 1
    /\ \E i \in 1..Len(options) : Dest(ini, options[i]) # Absent
    /\ \A i \in 1..Len(options) : Dest(ini, options[i]) = Dest(OnDisk(last.disk), options[i])


\* the string under the external key of option o
ExtValue(config, o) == config[o.juju_key].s

\* C3: for an allowed-list option and a non-empty value, the option succeeds
\* and sets the destination key to exactly that value if and only if the
\* whole value matches a pattern of the allow-list; otherwise it fails and
\* leaves the store unchanged.
C3_AllowListWholeMatch ==
    [][(/\ ApplyStep
        /\ options[1].apply = "apply_allowed"
        /\ ExtString(last'.config, options[1]))
       => IF \E i \in 1..Len(options[1].allowed) :
                 fullmatch(options[1].allowed[i], ExtValue(last'.config, options[1]))
          THEN /\ last'.err = NoErr
               /\ Dest(ini', options[1]) = ExtValue(last'.config, options[1])
          ELSE /\ last'.err # NoErr
               /\ ini' = ini]_vars

\* C4: an allowed-list option with allow_empty true succeeds on a snapshot
\* whose external key is absent or empty; the destination key is then removed
\* when remove_if_empty is true and set to "" otherwise.
C4_AllowEmptyAccepted ==
    [][(/\ ApplyStep
        /\ options[1].apply = "apply_allowed"
        /\ options[1].allow_empty
        /\ ExtUnset(last'.config, options[1]))
       => /\ last'.err = NoErr
          /\ Dest(ini', options[1]) = IF options[1].remove_if_empty THEN Absent ELSE ""]_vars

\* the option refuses an unset key: the non-empty strategy, or an allowed-list
\* or multi-allowed-list option with allow_empty false
RefusesUnset(o) ==
    \/ o.apply = "apply_non_empty"
    \/ o.apply \in {"apply_allowed", "apply_multi_allowed"} /\ ~o.allow_empty

\* C5: an option that refuses an unset key fails on a snapshot whose external
\* key is absent or empty, and the store stays exactly as it was.
C5_UnsetRefused ==
    [][(/\ ApplyStep
        /\ RefusesUnset(options[1])
        /\ ExtUnset(last'.config, options[1]))
       => /\ last'.err # NoErr
          /\ ini' = ini]_vars

\* a multi-allowed-list option with allow_empty false has failed on the empty
\* snapshot and the store still has no section
C5_Witness ==
    /\ last.op = "apply"
    /\ options[1].apply = "apply_multi_allowed"
    /\ ~options[1].allow_empty
    /\ last.config = EmptyConfig
    /\ last.err # NoErr
    /\ last.err.key = options[1].juju_key
    /\ ~last.changed
    /\ ini = EmptyIni

\* C6: for a non-empty-or-remove option whose destination key holds a value,
\* a snapshot whose external key is absent or empty removes the key, and a
\* snapshot whose external key holds a non-empty string sets the key to it.
C6_RemoveOnEmpty ==
    [][(/\ ApplyStep
        /\ options[1].apply = "apply_non_empty_or_remove"
        /\ Dest(ini, options[1]) # Absent
        /\ ExtUnset(last'.config, options[1]) \/ ExtString(last'.config, options[1]))
       => /\ last'.err = NoErr
          /\ Dest(ini', options[1]) =
                IF ExtUnset(last'.config, options[1]) THEN Absent
                ELSE ExtValue(last'.config, options[1])]_vars


\* every comma-separated token of value, trimmed, matches a pattern of allowed
AllTokensMatch(allowed, value) ==
    \A t \in 1..Len(split(value, ",")) :
        \E i \in 1..Len(allowed) : fullmatch(allowed[i], strip(split(value, ",")[t]))

\* C7: for a multi-allowed-list option and a non-empty value, if every trimmed
\* token of the value (the empty tokens too) matches a pattern the option
\* succeeds and sets the destination key to the untrimmed value verbatim; if
\* a token matches none the option fails and the store is unchanged.
C7_MultiValueTokens ==
    [][(/\ ApplyStep
        /\ options[1].apply = "apply_multi_allowed"
        /\ ExtString(last'.config, options[1]))
       => IF AllTokensMatch(options[1].allowed, ExtValue(last'.config, options[1]))
          THEN /\ last'.err = NoErr
               /\ Dest(ini', options[1]) = ExtValue(last'.config, options[1])
          ELSE /\ last'.err # NoErr
               /\ ini' = ini]_vars

\* the same option bound to the other of the two allow-list strategies
Twin(o) ==
    [o EXCEPT !.apply = IF @ = "apply_allowed" THEN "apply_multi_allowed"
                        ELSE "apply_allowed"]

\* C8: on a snapshot whose external key is absent or empty, a
\* multi-allowed-list option and the allowed-list option with the same
\* allow-list and flags have the same outcome on the same store: both succeed
\* or both fail, and both leave the same store.
C8_EmptyHandlingSame ==
    [][(/\ ApplyStep
        /\ options[1].apply \in {"apply_allowed", "apply_multi_allowed"}
        /\ ExtUnset(last'.config, options[1]))
       => /\ DirectOption_apply(ini, Twin(options[1]), last'.config).ini = ini'
          /\ (DirectOption_apply(ini, Twin(options[1]), last'.config).err = NoErr)
                <=> (last'.err = NoErr)]_vars

\* C9: the any strategy never fails on a string or on an absent key: it sets
\* the destination key to the string, to "" when the key is absent, and
\* never removes it.
C9_AnyAcceptsEveryString ==
    [][(/\ ApplyStep
        /\ options[1].apply = "apply_any"
        /\ ExtUnset(last'.config, options[1]) \/ ExtString(last'.config, options[1]))
       => /\ last'.err = NoErr
          /\ Dest(ini', options[1]) =
                IF ExtUnset(last'.config, options[1]) THEN ""
                ELSE ExtValue(last'.config, options[1])]_vars

\* the parser stores the string and the unrestricted pattern matches it
Storable(s) == ~BadInterpolation(s) /\ find(s, NL, 1) = 0

\* C10: the external value is unset exactly when the key is absent or holds
\* "": the non-empty strategy, which fails on unset and on nothing else that
\* the store can hold, fails then, and sets the destination key to the string
\* form of every other value, the integer 0 and the boolean false included.
C10_UnsetIsAbsentOrEmpty ==
    [][(/\ ApplyStep
        /\ options[1].apply = "apply_non_empty"
        /\ ~ExtUnset(last'.config, options[1]) => Storable(PyStr(last'.config[options[1].juju_key])))
       => IF ExtUnset(last'.config, options[1])
          THEN last'.err # NoErr
          ELSE /\ last'.err = NoErr
               /\ Dest(ini', options[1]) = PyStr(last'.config[options[1].juju_key])]_vars


\* a pass that failed on an invalid configuration value
InvalidValue(e) == e.type = "ValueError"

\* C11 as stated: when the pass of a load -> apply cycle fails on an invalid
\* value and save is not called, the file is the same as before the cycle
\* began, that is as load found it.
C11_FileAsBeforeCycle ==
    [][(/\ ApplyStep
        /\ last.op = "load"
        /\ last.err = NoErr
        /\ InvalidValue(last'.err))
       => file' = last.disk]_vars

\* C11 amended: after such a cycle the file is the one load found, with the
\* marker line before its first line if that line was not the marker; the
\* failed pass itself writes nothing, so the configuration the file holds is
\* the one it held before the cycle.
C11_FileAsLoadLeftIt ==
    [][(/\ ApplyStep
        /\ last.op = "load"
        /\ last.err = NoErr
        /\ InvalidValue(last'.err))
       => /\ file' = file
          /\ file'.exists
          /\ file'.lines = IF Len(last.disk.lines) > 0 /\ last.disk.lines[1] = Marker
                           THEN last.disk.lines
                           ELSE <<Marker>> \o last.disk.lines
          /\ OnDisk(file') = OnDisk(last.disk)]_vars

\* a pass that failed on an invalid value after changing the store, right
\* after a load of a file that holds keys
C11_Witness ==
    /\ last.op = "apply"
    /\ InvalidValue(last.err)
    /\ last.changed
    /\ prior.op = "load"
    /\ prior.err = NoErr
    /\ file = last.disk
    /\ Len(file.lines) > 1
    /\ file.lines[1] = Marker


\* a step of load on a file that exists
LoadStep == last'.op = "load" /\ calls' = calls + 1 /\ file.exists

\* the first line is the default-section marker, its newline there or not
BeginsWithMarker(lines) ==
    Len(lines) > 0 /\ lines[1] \in {Marker, "[DEFAULT]"}

\* the lines after the leading marker, all of them if there is none
Unmarked(lines) ==
    IF BeginsWithMarker(lines) THEN SubSeq(lines, 2, Len(lines)) ELSE lines

\* C12: load tolerates a file with or without the leading marker: afterwards
\* the file is one marker line followed by the original lines, a file that
\* began with the marker (its newline there or not) being left unchanged, and the outcome of the read and the store are those of the
\* same lines under one marker.
C12_MarkerTolerance ==
    [][LoadStep =>
        /\ file'.lines = IF BeginsWithMarker(file.lines) THEN file.lines
                         ELSE <<Marker>> \o file.lines
        /\ ini' = _read(EmptyIni, <<Marker>> \o Unmarked(file.lines)).ini
        /\ last'.err = _read(EmptyIni, <<Marker>> \o Unmarked(file.lines)).err]_vars


\* a step of save right after a load that succeeded
SaveAfterLoad ==
    /\ last.op = "load"
    /\ last.err = NoErr
    /\ last'.op = "save"
    /\ calls' = calls + 1

\* C13: saving right after loading a well-formed file writes a file that
\* holds the same sections, keys (case kept) and values as the loaded one,
\* and that begins with the default-section marker, also when the default
\* section holds no key.
C13_LoadSaveIdempotent ==
    [][SaveAfterLoad =>
        /\ last'.err = NoErr
        /\ OnDisk(file') = ini
        /\ OnDisk(file') = OnDisk(last.disk)
        /\ Len(file'.lines) > 0
        /\ file'.lines[1] = Marker]_vars


\* the file begins with the [DEFAULT] header
HasDefaultHeader(F) == Len(F.lines) > 0 /\ F.lines[1] = Marker

\* the file has a [server] section that begins with HTTP_PORT = 3000 and
\* PROTOCOL = https
HasServerLines(F) ==
    \E i \in 1..(Len(F.lines) - 2) :
        /\ F.lines[i] = "[server]" \o NL
        /\ F.lines[i + 1] = "HTTP_PORT = 3000" \o NL
        /\ F.lines[i + 2] = "PROTOCOL = https" \o NL

\* a step of apply on snapshot c right after the load of an empty file
ApplyOnEmptyFile(c) ==
    /\ ApplyStep
    /\ last.op = "load"
    /\ last.err = NoErr
    /\ last.disk = FileOf(<<>>)
    /\ last'.config = c

SetDbStep == last'.op = "set_db_config" /\ calls' = calls + 1 /\ ini.loaded

\* C15: on any loaded document, whatever its sections and whatever the
\* characters of the credentials, set_db_config succeeds and leaves
\* DB_TYPE, SCHEMA, NAME, USER, PASSWD and HOST in section database, the last
\* three holding the arguments it was given.
C15_DbConfigUnconditional ==
    [][SetDbStep =>
        /\ last'.err = NoErr
        /\ Lookup(ini', "database", "DB_TYPE") = "postgres"
        /\ Lookup(ini', "database", "SCHEMA") = ""
        /\ Lookup(ini', "database", "NAME") = "giteadb"
        /\ \E c \in PrimCredentials :
               /\ Lookup(ini', "database", "USER") = c[1]
               /\ Lookup(ini', "database", "PASSWD") = c[2]
               /\ Lookup(ini', "database", "HOST") = c[3]]_vars


\* C16: every failure of a DirectOption's strategy, whichever step raised it
\* (an unset required key, a value outside the allow-list, a bad token, or
\* the document's set or remove), reaches the caller of DirectOption.apply as
\* the one invalid-value error that names the option's external key, never
\* as the strategy's own error.
C16_UniformWrapping ==
    [][(/\ ApplyStep
        /\ options[1].cls = "DirectOption"
        /\ last'.err # NoErr)
       => /\ last'.err.type = "ValueError"
          /\ last'.err.key = options[1].juju_key
          /\ last'.err.cause # ""]_vars

\* a DirectOption whose value passed its allow-list and was then refused by
\* the document's set: the caller sees the error that names the external key
C16_Witness ==
    /\ last.op = "apply"
    /\ options[1].apply = "apply_multi_allowed"
    /\ options[1].allowed = <<".*">>
    /\ "opt" \in DOMAIN last.config
    /\ last.config["opt"] = StrVal("a%")
    /\ has_section(ini, "server")
    /\ last.err = [type |-> "ValueError", key |-> "opt", cause |-> "ValueError"]


\* C17: for every registered option, PathOption included, a failure of the
\* validation of its value during apply reaches the caller as an error that
\* names the offending external key.
C17_FailureNamesKey ==
    [][(/\ ApplyStep
        /\ InvalidValue(last'.err))
       => last'.err.key = options[Len(last'.applied)].juju_key]_vars


\* the keys of section sect of store I
SectionOf(I, sect) == DGet(I.sections, sect)

\* C18: whenever an option's strategy succeeds the destination section
\* exists afterwards, created empty before the key was set or removed if it
\* was not there; removing the key from a section that was just created, or
\* that does not hold it, changes nothing else and is not an error.
C18_SectionEnsured ==
    [][ApplyStep =>
        /\ last'.err = NoErr =>
            /\ has_section(ini', options[1].ini_sect)
            /\ ~has_section(ini, options[1].ini_sect) =>
                /\ ini'.defaults = ini.defaults
                /\ SectionOf(ini', options[1].ini_sect) =
                      IF Dest(ini', options[1]) = Absent THEN <<>>
                      ELSE <<[k |-> options[1].ini_key, v |-> Dest(ini', options[1])]>>
        /\ (/\ options[1].apply = "apply_non_empty_or_remove"
            /\ ExtUnset(last'.config, options[1])
            /\ Dest(ini, options[1]) = Absent) =>
            /\ last'.err = NoErr
            /\ ini' = IF has_section(ini, options[1].ini_sect) THEN ini
                      ELSE [ini EXCEPT !.sections =
                               Append(@, [k |-> options[1].ini_sect, v |-> <<>>])]]_vars

\* a remove-on-empty option has succeeded on the empty snapshot against a
\* store without the section: the section is there, created empty
C18_Witness ==
    /\ last.op = "apply"
    /\ options[1].apply = "apply_non_empty_or_remove"
    /\ last.config = EmptyConfig
    /\ last.err = NoErr
    /\ last.changed
    /\ ini.sections = <<[k |-> "server", v |-> <<>>]>>


\* C19: set(section, key, value) and remove(section, key) on a loaded
\* document fail with the section-not-found error when the named section,
\* not the default one, does not exist, and leave the store unchanged.
C19_MissingSectionFails ==
    [][\A s \in PrimSections \ {"default"}, k \in PrimKeys :
          (ini.loaded /\ ~has_section(ini, s)) =>
              /\ Remove(s, k) => (last'.err.type = "NoSectionError" /\ ini' = ini)
              /\ \A v \in PrimValues :
                     Set(s, k, v) => (last'.err.type = "NoSectionError" /\ ini' = ini)]_vars


\* C20: load from any state, whatever apply, set, remove, set_db_config or
\* save did before it, leaves a store built from the file alone: the store
\* after the load is the one a load of the same file into a new object gives,
\* so no key of the previous store survives unless the file holds it.
C20_LoadReplacesStore ==
    [][(last'.op = "load" /\ calls' = calls + 1) =>
          /\ ini' = IF file.exists THEN OnDisk(file) ELSE EmptyIni
          /\ ini' = load(NoIni, file).ini]_vars

\* a load that threw away what a primitive, a pass or set_db_config had put
\* in the store and that no save had written
C20_Witness ==
    /\ last.op = "load"
    /\ last.changed
    /\ prior.op \in {"apply", "set", "remove", "set_db_config"}
    /\ prior.changed
    /\ ini = OnDisk(last.disk)


\* C21: the store is what the last successful load read plus the mutations
\* made since; in particular a load that fails, on a missing file or on a
\* file that does not parse, leaves the store as it was before that load.
C21_FailedLoadKeepsStore ==
    [][(last'.op = "load" /\ calls' = calls + 1 /\ last'.err # NoErr) => ini' = ini]_vars


\* a step of save
SaveStep == last'.op = "save" /\ calls' = calls + 1

\* every key that a reader finds in file F is a key of store I
KeysFromStore(F, I) ==
    LET d == OnDisk(F)
    IN  /\ \A k \in DKeys(d.defaults) : Lookup(I, default_section, k) # Absent
        /\ \A s \in DKeys(d.sections) :
               /\ has_section(I, s)
               /\ \A k \in DKeys(DGet(d.sections, s)) : Lookup(I, s, k) # Absent

\* C22: save leaves the store unchanged and is idempotent: the file it leaves
\* is the serialization of the store and nothing else, whatever the file held
\* before, a second save right after it leaves the same file, and no key that
\* the store lacks is left in the file.
C22_SaveIdempotent ==
    [][SaveStep =>
        /\ ini' = ini
        /\ save(ini', file').file = file'
        /\ ini.loaded => file' = FileOf(SplitLines(write(ini)))
        /\ KeysFromStore(file', ini)]_vars

\* a save of a store from which a key that the file held had been removed:
\* the file no longer holds the key
C22_Witness ==
    /\ last.op = "save"
    /\ last.err = NoErr
    /\ prior.op = "remove"
    /\ prior.changed
    /\ file # last.disk
    /\ ~KeysFromStore(last.disk, ini)
    /\ KeysFromStore(file, ini)


\* the path a PathOption reads from the snapshot, "" when it is unset
PathOf(config, o) == _get(o, config, TRUE).val

\* C23: after a PathOption is applied successfully with a non-empty path, a
\* directory exists at the path with the configured owner and the configured
\* mode, whether this apply created it or it was there before with another
\* owner or mode.
C23_DirectoryProvisioned ==
    [][(/\ ApplyStep
        /\ options[1].cls = "PathOption"
        /\ last'.err = NoErr
        /\ PathOf(last'.config, options[1]) # "") =>
          LET path == PathOf(last'.config, options[1])
          IN  /\ path \in DOMAIN dirs'
              /\ dirs'[path].owner = PathOwner
              /\ dirs'[path].mode = PathMode]_vars


\* option i of the table is a PathOption that the pass of snapshot config
\* applied, with a path, before the option on which the pass failed
ProvisionedBeforeFailure(i, l) ==
    /\ l.err # NoErr
    /\ options[i].cls = "PathOption"
    /\ i < Len(l.applied)
    /\ PathOf(l.config, options[i]) # ""

\* C24: directory provisioning is not rolled back: when a PathOption succeeds
\* and a later option of the same pass fails, the directory of the PathOption
\* exists after the pass, its value is in the store, and the pass has written
\* nothing to the file.
C24_ProvisioningNotRolledBack ==
    [][ApplyStep =>
        \A i \in 1..Len(options) :
            ProvisionedBeforeFailure(i, last') =>
                /\ PathOf(last'.config, options[i]) \in DOMAIN dirs'
                /\ Dest(ini', options[i]) = PathOf(last'.config, options[i])
                /\ file' = file]_vars

\* a failed pass that had created a directory which was not there before and
\* had put its path in the store, the file not holding it
C24_Witness ==
    /\ last.op = "apply"
    /\ last.changed
    /\ \E i \in 1..Len(options) :
        /\ ProvisionedBeforeFailure(i, last)
        /\ PathOf(last.config, options[i]) \in DOMAIN dirs
        /\ Dest(ini, options[i]) = PathOf(last.config, options[i])
        /\ file.exists
        /\ Dest(OnDisk(file), options[i]) = Absent
    /\ prior.op = "load"


\* ordered dicts d and e hold the same keys with the same values
SameItems(d, e) ==
    /\ DKeys(d) = DKeys(e)
    /\ \A k \in DKeys(d) : DGet(d, k) = DGet(e, k)

\* stores I and J hold the same sections with the same keys and values
SameContent(I, J) ==
    /\ I.loaded = J.loaded
    /\ SameItems(I.defaults, J.defaults)
    /\ DKeys(I.sections) = DKeys(J.sections)
    /\ \A s \in DKeys(I.sections) : SameItems(DGet(I.sections, s), DGet(J.sections, s))

C26_DefaultAliasAnyCase ==
    [][ini.loaded =>
        \A s \in AliasSpellings :
            /\ EnsureSection(s) => last'.err = NoErr
            /\ \A k \in AliasKeys :
                /\ Set(s, k, "v") =>
                      (last'.err = NoErr /\ Lookup(ini', default_section, k) = "v")
                /\ Remove(s, k) =>
                      (last'.err = NoErr /\ Lookup(ini', default_section, k) = Absent)]_vars


\* a step of the handler of event name
HandlerStep(name) == last'.op = name /\ calls' = calls + 1

\* the call s is in the trace of the handler
Called(U, s) == \E i \in 1..Len(U.steps) : U.steps[i] = s

\* apply raised in the handler
ApplyFailedIn(U) == U.raised # NoErr /\ U.at = "apply"

\* C27: the config-changed handler never persists after a failed apply: when
\* apply raises, whatever the exception, the handler calls neither save nor
\* the service start, the file is as load left it and a service that was not
\* running is not running.
C27_NoSaveAfterFailedApply ==
    [][(HandlerStep("config_changed") /\ ApplyFailedIn(unit')) =>
        /\ ~Called(unit', "save")
        /\ ~Called(unit', "start")
        /\ file' = load(ini, file).file
        /\ unit'.running => unit.running]_vars

\* a config-changed event in which apply failed after earlier options had
\* changed the store: the store holds their values, the file does not
C27_Witness ==
    /\ last.op = "config_changed"
    /\ ApplyFailedIn(unit)
    /\ Len(last.applied) > 1
    /\ last.changed
    /\ ini # OnDisk(file)
    /\ ~unit.running


\* C28: whenever apply fails in the config-changed handler, on a value or on
\* the provisioning of a PathOption's directory (OS error, unknown user or
\* group), the handler ends with the unit status set to Blocked and carrying
\* the failure message.
C28_ApplyFailureBlocks ==
    [][(HandlerStep("config_changed") /\ ApplyFailedIn(unit')) =>
        /\ last'.err = NoErr
        /\ unit'.status = "Blocked"
        /\ unit'.raised.type = "ValueError" => unit'.message = Message(unit'.raised)]_vars

\* a file call of the document failed with an I/O error in the handler
IoFailedIn(U) ==
    /\ U.at \in {"load", "save"}
    /\ U.raised.type \in {"PermissionError", "FileNotFoundError"}

\* C29: an I/O failure of load or save is raised as a config-file error and
\* the config-changed and database-created handlers surface it as a Blocked
\* unit status; a load that fails because the path is unreadable does not
\* modify the file.
C29_IoFailureBlocks ==
    [][((HandlerStep("config_changed") \/ HandlerStep("database_created"))
        /\ IoFailedIn(unit')) =>
        /\ unit'.raised.type = "ConfigFileError"
        /\ last'.err = NoErr
        /\ unit'.status = "Blocked"
        /\ unit'.at = "load" => file' = file]_vars

\* C30: in the install and upgrade handlers of both charms, when the binary
\* resource cannot be fetched the handler raises MissingResourceError and
\* does nothing after the fetch: no copy, no start, the service is not
\* started and the handler does not set the status to Active.
C30_MissingResourceStops ==
    [][((HandlerStep("install") \/ HandlerStep("upgrade_charm"))
        /\ unit'.env.fetch # "ok") =>
        /\ last'.err = Raise("MissingResourceError")
        /\ unit'.steps[Len(unit'.steps)] = "fetch"
        /\ ~Called(unit', "copy")
        /\ ~Called(unit', "start")
        /\ unit'.running => unit.running
        /\ unit'.status \in {"Maintenance", unit.status}
        /\ unit'.status = "Active" => (unit.status = "Active" /\ unit'.message = unit.message)]_vars

\* an upgrade of a unit whose status was Active and whose service ran: the
\* fetch failed, the handler raised after stopping the service
C30_Witness ==
    /\ last.op = "upgrade_charm"
    /\ unit.env.fetch # "ok"
    /\ last.err = Raise("MissingResourceError")
    /\ prior.op = "install"
    /\ prior.err = NoErr
    /\ Called(unit, "stop")
    /\ ~Called(unit, "copy")


\* C31: on a document that was never loaded, save, apply, set, remove and
\* set_db_config each fail and leave the file as it was; the file changes
\* only through load, or through save on a loaded document.
C31_UnloadedCallsFail ==
    [][/\ (/\ ~ini.loaded
           /\ calls' = calls + 1
           /\ last'.op \in {"save", "apply", "set", "remove", "set_db_config"})
          => (last'.err # NoErr /\ file' = file)
       /\ file' # file => (last'.op = "load" \/ (last'.op = "save" /\ ini.loaded))]_vars


\* file F holds a section header line for the section named name
HasHeaderLine(F, name) ==
    \E i \in 1..Len(F.lines) : F.lines[i] = "[" \o name \o "]" \o NL

\* C32: applying an option whose destination section is the 'default' alias
\* changes only the default section of the document: the pass creates no
\* section named 'default', and the file saved after it holds no '[default]'
\* section besides '[DEFAULT]'.
C32_DefaultAliasNoSection ==
    [][/\ ApplyStep => (has_section(ini', "default") <=> has_section(ini, "default"))
       /\ (SaveStep /\ ~HasHeaderLine(file, "default")) => ~HasHeaderLine(file', "default")]_vars


\* the (section, key) entries of store I
Entries(I) ==
    {<<default_section, k>> : k \in DKeys(I.defaults)}
    \cup UNION {{<<s, k>> : k \in DKeys(DGet(I.sections, s))} : s \in DKeys(I.sections)}

\* (section, key) is the destination of a registered option
Registered(e) ==
    \E i \in 1..Len(options) : DestSect(options[i]) = e[1] /\ options[i].ini_key = e[2]

\* the keys of the database connection that set_db_config writes from the event
DbKeys == {"USER", "PASSWD", "HOST"}

\* C33: an apply pass, successful or failed, changes only entries that are
\* the destination of a registered option: every other entry read from the
\* file keeps its value in the store the config-changed handler leaves, and
\* config-changed leaves database USER, PASSWD and HOST in the file as they
\* were, after a database-created event as well.
C33_ApplyFrame ==
    [][HandlerStep("config_changed") =>
        \E before \in {OnDisk(file)} :
            /\ Called(unit', "apply") =>
                  \A e \in Entries(before) :
                      ~Registered(e) => Lookup(ini', e[1], e[2]) = Lookup(before, e[1], e[2])
            /\ file' # file =>
                  \E after \in {OnDisk(file')} :
                      \A k \in DbKeys :
                          Lookup(after, "database", k) = Lookup(before, "database", k)]_vars

\* a config-changed event after a database-created event that wrote the
\* credentials: the handler has rewritten the file with the applied options
\* and the file still holds the credentials of the event
C33_Witness ==
    /\ last.op = "config_changed"
    /\ prior.op = "database_created"
    /\ prior.err = NoErr
    /\ Called(unit, "save")
    /\ unit.raised = NoErr
    /\ file # last.disk
    /\ Lookup(OnDisk(file), "database", "USER") = "svcuser"
    /\ Lookup(OnDisk(file), "database", "PASSWD") = "s3cr3t"
    /\ Lookup(OnDisk(file), "database", "HOST") = "db-0:5432"
    /\ Lookup(OnDisk(file), "server", "PROTOCOL") = "https"


\* C34: apply is idempotent on the store: after a pass that succeeds on a
\* loaded store, a second pass over the same snapshot succeeds and leaves
\* the store as the first pass left it.
C34_ApplyIdempotent ==
    [][(ApplyStep /\ ini.loaded /\ last'.err = NoErr) =>
        \E again \in {GiteaConfig_apply(ini', dirs', options, last'.config, "ok")} :
            /\ again.err = NoErr
            /\ again.ini = ini']_vars

\* a pass over the whole table that succeeded and changed the store, and a
\* second pass over the same snapshot that leaves that store as it is
C34_Witness ==
    /\ last.op = "apply"
    /\ last.err = NoErr
    /\ last.changed
    /\ Len(last.applied) = Len(options)
    /\ Len(options) > 1
    /\ GiteaConfig_apply(ini, dirs, options, last.config, "ok").ini = ini


\* the position of call s in the trace of the handler, 0 when it was not made
Position(U, s) ==
    IF Called(U, s) THEN CHOOSE i \in 1..Len(U.steps) : U.steps[i] = s ELSE 0

\* the handler made call s before call t
Before(U, s, t) == Called(U, s) /\ Called(U, t) /\ Position(U, s) < Position(U, t)

\* the ordering of the handler's calls: a running service is asked to stop
\* before load, and start is asked only after save
StoppedThenRewritten(U, V) ==
    /\ (U.running /\ Called(V, "load")) => Before(V, "stop", "load")
    /\ Called(V, "start") => Before(V, "save", "start")

\* C35: database-created and config-changed rewrite the configuration file
\* (load, save) only while the service is not running: a running service is
\* stopped before load, start is requested only after save has returned, and
\* when the stop request reports failure the handler does not go on to
\* rewrite the file.
C35_RewriteWhileStopped ==
    [][(HandlerStep("config_changed") \/ HandlerStep("database_created")) =>
        /\ StoppedThenRewritten(unit, unit')
        /\ (unit.running /\ ~unit'.env.stop) =>
              /\ ~Called(unit', "load")
              /\ ~Called(unit', "save")
              /\ file' = file]_vars


\* no database-created event has written the database configuration and
\* saved it: the file holds no database HOST, which only set_db_config writes
NoDatabaseSaved(F) == Lookup(OnDisk(F), "database", "HOST") = Absent

\* C36: the Gitea service is never started, and the status never becomes
\* Active "Gitea Running", before a database-created event has written and
\* saved the database configuration: install, start, config-changed and
\* upgrade events that no successful database-created event precedes make
\* no start request and leave the service not running.
C36_NoStartBeforeDatabase ==
    [][(/\ unit.charm = "gitea"
        /\ calls' = calls + 1
        /\ last'.op \in {"install", "start", "config_changed", "upgrade_charm"}
        /\ ~unit.running
        /\ NoDatabaseSaved(file)) =>
            /\ ~Called(unit', "start")
            /\ ~unit'.running
            /\ ~(unit'.status = "Active" /\ unit'.message = "Gitea Running")]_vars


\* a field of the database-created event recorded in call l is missing or empty
FieldEmpty(l) == \E k \in DOMAIN l.config : l.config[k] = StrVal("")

\* C37: a database-created event whose username, password or endpoints is
\* missing or empty sets the status to Blocked and changes nothing else: the
\* handler makes no call, the service is neither stopped nor started, and the
\* file is neither loaded nor saved.
C37_IncompleteEventOnlyBlocks ==
    [][(HandlerStep("database_created") /\ FieldEmpty(last')) =>
        /\ unit'.status = "Blocked"
        /\ unit'.message = "Failed to configure database"
        /\ unit'.steps = <<>>
        /\ unit'.raised = NoErr
        /\ unit'.running = unit.running
        /\ file' = file
        /\ ini' = ini
        /\ dirs' = dirs]_vars

\* a database-created event without a password on a unit whose service runs
\* over an existing file: the unit is Blocked, the service still runs and
\* the file is as it was
C37_Witness ==
    /\ last.op = "database_created"
    /\ last.config["password"] = StrVal("")
    /\ last.config["username"] # StrVal("")
    /\ unit.status = "Blocked"
    /\ unit.running
    /\ file.exists
    /\ file = last.disk

====
